---- MODULE Spec2Model ----
(***************************************************************************)
(* Model of the megatech-vulkan-dispatch dispatch tables: the compile-time *)
(* FNV-1a hash, the per-scope command enumerations, and the global,        *)
(* instance and device table classes with their constructors and lookups.  *)
(***************************************************************************)
EXTENDS Integers, Sequences, FiniteSets, TLC

(***************************************************************************)
(* Bounds of the model.                                                    *)
(***************************************************************************)
\* Non-null VkInstance / VkDevice handle values are 1..MaxHandle.
MaxHandle == 2

(***************************************************************************)
(* Unsigned integers of a fixed width, as little-endian sequences of 8-bit *)
(* limbs (a 64-bit value does not fit the model checker's integers).       *)
(***************************************************************************)
RECURSIVE BitXor(_, _)
\* Bitwise exclusive or of two naturals.
BitXor(a, b) ==
  IF a = 0 THEN b
  ELSE IF b = 0 THEN a
  ELSE (((a % 2) + (b % 2)) % 2) + 2 * BitXor(a \div 2, b \div 2)

RECURSIVE Pow2(_)
Pow2(n) == IF n = 0 THEN 1 ELSE 2 * Pow2(n - 1)

\* The value of a char converted to an unsigned Type of n limbs: a char that
\* is negative on a build with signed char sign-extends to all-ones limbs.
CharToType(c, n, charSigned) ==
  [i \in 1..n |-> IF i = 1 THEN c
                  ELSE IF charSigned /\ c >= 128 THEN 255 ELSE 0]

\* hash ^= *str
RECURSIVE XorFrom(_, _, _)
XorFrom(a, b, i) ==
  IF i > Len(a) THEN <<>> ELSE <<BitXor(a[i], b[i])>> \o XorFrom(a, b, i + 1)

XorLimbs(a, b) == XorFrom(a, b, 1)

\* Sum of the partial products a[i] * b[j] that land in limb k (1-based).
PartialSum(a, b, k) ==
  LET RECURSIVE Sum(_)
      Sum(i) == IF i > k THEN 0 ELSE a[i] * b[k + 1 - i] + Sum(i + 1)
  IN Sum(1)

RECURSIVE MulFrom(_, _, _, _)
\* Limbs k.. of a * b with the carry into limb k, truncated to Len(a) limbs.
MulFrom(a, b, k, carry) ==
  IF k > Len(a) THEN <<>>
  ELSE LET t == PartialSum(a, b, k) + carry
       IN <<(t % 256)>> \o MulFrom(a, b, k + 1, t \div 256)

\* hash *= Prime, wrapping at the storage width.
MulLimbs(a, b) == MulFrom(a, b, 1, 0)

\* MaskLimbs that clears no digit.
MaskLimbs_nothing(a, MaxDigits) == a

\* hash & ((1 << MaxDigits) - 1)
MaskLimbs(a, MaxDigits) ==
  [i \in 1..Len(a) |->
     IF 8 * i <= MaxDigits THEN a[i]
     ELSE IF 8 * (i - 1) >= MaxDigits THEN 0
     ELSE a[i] % Pow2(MaxDigits - 8 * (i - 1))]

RECURSIVE fnv_loop(_, _, _, _, _)
\* The while (*str) loop of basic_fnv_1a_cstr, from position k of str.
fnv_loop(hash, Prime, str, k, charSigned) ==
  IF k > Len(str) THEN hash
  ELSE LET next == MulLimbs(XorLimbs(hash, CharToType(str[k], Len(hash), charSigned)), Prime)
       \* (the product is truncated to the limbs of Type)
       IN IF Len(next) = Len(hash) THEN fnv_loop(next, Prime, str, k + 1, charSigned)
          ELSE next

\* basic_fnv_1a_cstr<Type, Offset, Prime, MaxDigits>(str); Offset and Prime
\* are given in the limbs of Type, so Len(Offset) * 8 is Type's digits.
basic_fnv_1a_cstr(Offset, Prime, MaxDigits, str, charSigned) ==
  LET hash == fnv_loop(Offset, Prime, str, 1, charSigned)
  IN IF 8 * Len(Offset) > MaxDigits THEN MaskLimbs(hash, MaxDigits) ELSE hash

\* 0xcbf29ce484222325
FNV64_OFFSET == <<37, 35, 34, 132, 228, 156, 242, 203>>
\* 0x100000001b3
FNV64_PRIME == <<179, 1, 0, 0, 0, 1, 0, 0>>

\* fnv_1a_cstr(str): the 64-bit instantiation.
fnv_1a_cstr(str, charSigned) ==
  basic_fnv_1a_cstr(FNV64_OFFSET, FNV64_PRIME, 64, str, charSigned)

(***************************************************************************)
(* Command names.  A name is kept as a string in the state; its bytes are  *)
(* what the stringizing operator #cmd hands to the hash function.          *)
(***************************************************************************)
NameBytes(n) ==
  CASE n = "vkCreateInstance" -> <<118, 107, 67, 114, 101, 97, 116, 101, 73, 110, 115, 116, 97, 110, 99, 101>>
    [] n = "vkEnumerateInstanceVersion" -> <<118, 107, 69, 110, 117, 109, 101, 114, 97, 116, 101, 73, 110, 115, 116, 97, 110, 99, 101, 86, 101, 114, 115, 105, 111, 110>>
    [] n = "vkGetInstanceProcAddr" -> <<118, 107, 71, 101, 116, 73, 110, 115, 116, 97, 110, 99, 101, 80, 114, 111, 99, 65, 100, 100, 114>>
    [] n = "vkCreateDevice" -> <<118, 107, 67, 114, 101, 97, 116, 101, 68, 101, 118, 105, 99, 101>>
    [] n = "vkDestroyInstance" -> <<118, 107, 68, 101, 115, 116, 114, 111, 121, 73, 110, 115, 116, 97, 110, 99, 101>>
    [] n = "vkEnumeratePhysicalDevices" -> <<118, 107, 69, 110, 117, 109, 101, 114, 97, 116, 101, 80, 104, 121, 115, 105, 99, 97, 108, 68, 101, 118, 105, 99, 101, 115>>
    [] n = "vkCreateSwapchainKHR" -> <<118, 107, 67, 114, 101, 97, 116, 101, 83, 119, 97, 112, 99, 104, 97, 105, 110, 75, 72, 82>>
    [] n = "vkDestroyDevice" -> <<118, 107, 68, 101, 115, 116, 114, 111, 121, 68, 101, 118, 105, 99, 101>>
    [] n = "vkGetDeviceProcAddr" -> <<118, 107, 71, 101, 116, 68, 101, 118, 105, 99, 101, 80, 114, 111, 99, 65, 100, 100, 114>>
    [] n = "vkNotARealVulkanCommandMEGATECH" -> <<118, 107, 78, 111, 116, 65, 82, 101, 97, 108, 86, 117, 108, 107, 97, 110, 67, 111, 109, 109, 97, 110, 100, 77, 69, 71, 65, 84, 69, 67, 72>>
    [] n = "foobar" -> <<102, 111, 111, 98, 97, 114>>
    [] n = "" -> <<>>

\* All command names are ASCII, so the signedness of char does not matter.
HashOfName(n) == fnv_1a_cstr(NameBytes(n), FALSE)

Scopes == {"global", "instance", "device"}

\* The configurations the library is built in: the generator is given the
\* API version and the extensions whose commands it is to emit.
BUILD_1_1 == "VK_VERSION_1_1 with VK_KHR_swapchain"
BUILD_1_0 == "VK_VERSION_1_0"
Builds == {BUILD_1_1, BUILD_1_0}

\* The configuration of the build the client program links.
VARIABLE config

\* sorted(commands.global_commands()), sorted(commands.instance_commands())
\* and sorted(commands.device_commands()) of a configuration: the names of
\* the enabled commands of a scope, sorted.
\* EnabledCommands with the commands in the order of their declaration in
\* the registry instead of sorted.
EnabledCommands_unsorted(build, scope) ==
  CASE scope = "global" ->
         IF build = BUILD_1_0 THEN <<"vkGetInstanceProcAddr", "vkCreateInstance">>
         ELSE <<"vkGetInstanceProcAddr", "vkCreateInstance", "vkEnumerateInstanceVersion">>
    [] scope = "instance" ->
         <<"vkDestroyInstance", "vkEnumeratePhysicalDevices", "vkCreateDevice">>
    [] scope = "device" ->
         IF build = BUILD_1_0 THEN <<"vkGetDeviceProcAddr", "vkDestroyDevice">>
         ELSE <<"vkGetDeviceProcAddr", "vkDestroyDevice", "vkCreateSwapchainKHR">>

EnabledCommands(build, scope) ==
  CASE scope = "global" ->
         IF build = BUILD_1_0 THEN <<"vkCreateInstance", "vkGetInstanceProcAddr">>
         ELSE <<"vkCreateInstance", "vkEnumerateInstanceVersion", "vkGetInstanceProcAddr">>
    [] scope = "instance" ->
         <<"vkCreateDevice", "vkDestroyInstance", "vkEnumeratePhysicalDevices">>
    [] scope = "device" ->
         IF build = BUILD_1_0 THEN <<"vkDestroyDevice", "vkGetDeviceProcAddr">>
         ELSE <<"vkCreateSwapchainKHR", "vkDestroyDevice", "vkGetDeviceProcAddr">>

\* The command lists the generator emits, sorted by name, one per scope.
GLOBAL_COMMAND_LIST == EnabledCommands(config, "global")
INSTANCE_COMMAND_LIST == EnabledCommands(config, "instance")
DEVICE_COMMAND_LIST == EnabledCommands(config, "device")

GLOBAL_COMMAND_COUNT == Len(GLOBAL_COMMAND_LIST)
INSTANCE_COMMAND_COUNT == Len(INSTANCE_COMMAND_LIST)
DEVICE_COMMAND_COUNT == Len(DEVICE_COMMAND_LIST)

CommandList(scope) ==
  CASE scope = "global" -> GLOBAL_COMMAND_LIST
    [] scope = "instance" -> INSTANCE_COMMAND_LIST
    [] scope = "device" -> DEVICE_COMMAND_LIST

\* enum class command : std::size_t { LIST }: the k-th name (from 0) gets
\* the enumerator value k.
CommandOf(scope, name) ==
  (CHOOSE k \in 1..Len(CommandList(scope)) : CommandList(scope)[k] = name) - 1

NameOf(scope, cmd) == CommandList(scope)[cmd + 1]

(***************************************************************************)
(* Handles and function pointers.                                          *)
(***************************************************************************)
\* VkInstance and VkDevice are distinct opaque handle types; value 0 is
\* VK_NULL_HANDLE.
VkInstance(v) == [type |-> "VkInstance", value |-> v]
VkDevice(v) == [type |-> "VkDevice", value |-> v]

NullInstance == VkInstance(0)
NullDevice == VkDevice(0)

InstanceHandles == {VkInstance(v) : v \in 1..MaxHandle}
DeviceHandles == {VkDevice(v) : v \in 1..MaxHandle}

\* PFN_vkVoidFunction.  A pointer is named by the root loader it descends
\* from and the (handle, name) queries that produced it, so two pointers are
\* equal only when they were resolved the same way.
NullPfn == [root |-> "null", path |-> <<>>]
\* What a call through a null function pointer yields when it returns at all.
WildPfn == [root |-> "wild", path |-> <<>>]

\* The loader functions a client can hand to global::table: the platform's
\* vkGetInstanceProcAddr and a minimal loader that resolves little.
RootLoaders == {"vkGetInstanceProcAddr", "minimalLoader"}
RootLoader(r) == [root |-> r, path |-> <<>>]

\* The names a loader descending from root r does not resolve (it returns
\* null for them): a disabled extension for the platform loader; its own
\* name, a Vulkan 1.1 command and vkGetDeviceProcAddr for the minimal one.
UnresolvedNames(r) ==
  IF r = "vkGetInstanceProcAddr" THEN {"vkCreateSwapchainKHR"}
  ELSE {"vkGetInstanceProcAddr", "vkEnumerateInstanceVersion", "vkGetDeviceProcAddr"}

Callable(cl) == cl # NullPfn /\ cl # WildPfn

\* (cl)((ctx), (#cmd)): one invocation of a loader callback.
Invoke(cl, ctx, name) ==
  IF ~Callable(cl) THEN WildPfn
  ELSE IF name \in UnresolvedNames(cl.root) THEN NullPfn
  ELSE [root |-> cl.root, path |-> Append(cl.path, [ctx |-> ctx, name |-> name])]

Invocation(cl, ctx, name) == [loader |-> cl, ctx |-> ctx, name |-> name]

(***************************************************************************)
(* Table objects.                                                          *)
(***************************************************************************)
\* std::array<PFN_vkVoidFunction, COUNT> m_pfns{ }: value-initialized.
EmptyPfns(count) == [k \in 0..(count - 1) |-> NullPfn]

\* The storage of an object that does not exist (never built, or its
\* constructor threw).
NoGlobalTable == [alive |-> FALSE, m_pfns |-> EmptyPfns(GLOBAL_COMMAND_COUNT)]
NoInstanceTable ==
  [alive |-> FALSE, m_instance |-> NullInstance,
   m_pfns |-> EmptyPfns(INSTANCE_COMMAND_COUNT)]
NoDeviceTable ==
  [alive |-> FALSE, m_instance |-> NullInstance, m_device |-> NullDevice,
   m_pfns |-> EmptyPfns(DEVICE_COMMAND_COUNT)]

RECURSIVE LoadCommands_reversed(_, _, _, _, _)
\* LoadCommands with the slot index counted from the wrong end of the array.
LoadCommands_reversed(scope, k, cl, ctx, pfns) ==
  IF k > Len(CommandList(scope)) THEN pfns
  ELSE LoadCommands_reversed(scope, k + 1, cl, ctx,
         [pfns EXCEPT ![Len(CommandList(scope)) - k] =
                         Invoke(cl, ctx, CommandList(scope)[k])])

RECURSIVE LoadCommands(_, _, _, _, _)
\* MEGATECH_VULKAN_DISPATCH_*_COMMAND_LIST under the G/I/D macros: for each
\* command of the list in order, m_pfns[command::cmd] = cl(ctx, #cmd).
LoadCommands(scope, k, cl, ctx, pfns) ==
  IF k > Len(CommandList(scope)) THEN pfns
  ELSE LoadCommands(scope, k + 1, cl, ctx,
         [pfns EXCEPT ![CommandOf(scope, CommandList(scope)[k])] =
                         Invoke(cl, ctx, CommandList(scope)[k])])

\* The loader invocations LoadCommands makes, in order.
LoadCalls(scope, cl, ctx) ==
  [k \in 1..Len(CommandList(scope)) |-> Invocation(cl, ctx, CommandList(scope)[k])]

\* The slot indices LoadCommands writes, in order.
LoadWrites(scope) ==
  [k \in 1..Len(CommandList(scope)) |-> CommandOf(scope, CommandList(scope)[k])]

\* What a constructor call comes to: the object (when it returned), the
\* loader invocations and the slot writes it made.
Thrown(table) ==
  [outcome |-> "error", table |-> table, calls |-> <<>>, writes |-> <<>>]
Built(table, calls, writes) ==
  [outcome |-> "ok", table |-> table, calls |-> calls, writes |-> writes]

(***************************************************************************)
(* Lookups.  A lookup returns a pointer to a slot of the table (its        *)
(* index), a null pointer, or throws dispatch::error.                      *)
(***************************************************************************)
SlotPtr(idx) == [err |-> FALSE, found |-> TRUE, idx |-> idx]
NullPtr == [err |-> FALSE, found |-> FALSE, idx |-> 0]
ThrowsError == [err |-> TRUE, found |-> FALSE, idx |-> 0]

\* *reinterpret_cast<const PFN*>(ppfn): the value of the slot pointed to.
Deref(table, ppfn) == table.m_pfns[ppfn.idx]

RECURSIVE HashesFrom(_, _)
HashesFrom(list, k) ==
  IF k > Len(list) THEN <<>> ELSE <<HashOfName(list[k])>> \o HashesFrom(list, k + 1)

\* fnv_1a_cstr(#name) for the names of every configuration's lists, in list
\* order; the compiler evaluates them once, when the library is built.
BUILD_CASE_LABELS ==
  [build \in Builds |->
     [scope \in Scopes |-> HashesFrom(EnabledCommands(build, scope), 1)]]

\* The case labels fnv_1a_cstr(#name) of each scope's switch statements,
\* in list order.
GLOBAL_CASE_LABELS == BUILD_CASE_LABELS[config]["global"]
INSTANCE_CASE_LABELS == BUILD_CASE_LABELS[config]["instance"]
DEVICE_CASE_LABELS == BUILD_CASE_LABELS[config]["device"]

CaseLabels(scope) ==
  CASE scope = "global" -> GLOBAL_CASE_LABELS
    [] scope = "instance" -> INSTANCE_CASE_LABELS
    [] scope = "device" -> DEVICE_CASE_LABELS

\* CaseOf with the case labels and the returned enumerators of the build
\* with the most commands, whatever the build.
CaseOf_of_largest_build(scope, hash) ==
  LET labels == BUILD_CASE_LABELS[BUILD_1_1][scope]
      hits == {k \in 1..Len(labels) : labels[k] = hash}
  IN IF hits = {} THEN -1 ELSE (CHOOSE k \in hits : \A j \in hits : k <= j) - 1

\* CaseOf with every case returning the command that follows its own.
CaseOf_shifted(scope, hash) ==
  LET hits == {k \in 1..Len(CaseLabels(scope)) : CaseLabels(scope)[k] = hash}
  IN IF hits = {} THEN -1 ELSE CHOOSE k \in hits : \A j \in hits : k <= j

\* switch (hash) { case fnv_1a_cstr(#name): ... }: the command whose case
\* label equals hash, or -1 for the default label.
CaseOf(scope, hash) ==
  LET hits == {k \in 1..Len(CaseLabels(scope)) : CaseLabels(scope)[k] = hash}
  IN IF hits = {} THEN -1
     ELSE CommandOf(scope, CommandList(scope)[CHOOSE k \in hits : \A j \in hits : k <= j])

\* global::table::size()
global_size(table) == Cardinality(DOMAIN table.m_pfns)
\* global::table::get(const command)
global_get(table, cmd) ==
  IF cmd >= global_size(table) THEN ThrowsError ELSE SlotPtr(cmd)
\* global::table::operator()(const command)
global_call(table, cmd) == global_get(table, cmd)
\* global::table::get(const std::uint_least64_t)
global_get_hash(table, hash) ==
  IF CaseOf("global", hash) = -1 THEN NullPtr
  ELSE global_get(table, CaseOf("global", hash))
\* global::table::operator()(const std::uint_least64_t)
global_call_hash(table, hash) == global_get_hash(table, hash)

\* instance::table::size()
instance_size(table) == Cardinality(DOMAIN table.m_pfns)
\* instance::table::get(const command) that answers an identifier past the
\* end with the last slot instead of throwing.
instance_get_clamped(table, cmd) ==
  IF cmd >= instance_size(table) THEN SlotPtr(instance_size(table) - 1)
  ELSE SlotPtr(cmd)

\* instance::table::get(const command)
instance_get(table, cmd) ==
  IF cmd >= instance_size(table) THEN ThrowsError ELSE SlotPtr(cmd)
\* instance::table::operator()(const command)
instance_call(table, cmd) == instance_get(table, cmd)
\* instance::table::get(const std::uint_least64_t)
instance_get_hash(table, hash) ==
  IF CaseOf("instance", hash) = -1 THEN NullPtr
  ELSE instance_get(table, CaseOf("instance", hash))
\* instance::table::operator()(const std::uint_least64_t)
instance_call_hash(table, hash) == instance_get_hash(table, hash)
\* instance::table::instance()
instance_instance(table) == table.m_instance

\* device::table::size()
device_size(table) == Cardinality(DOMAIN table.m_pfns)
\* device::table::get(const command)
device_get(table, cmd) ==
  IF cmd >= device_size(table) THEN ThrowsError ELSE SlotPtr(cmd)
\* device::table::operator()(const command)
device_call(table, cmd) == device_get(table, cmd)
\* device::table::get(hash) whose default label falls into the first case.
device_get_hash_fallthrough(table, hash) ==
  IF CaseOf("device", hash) = -1 THEN device_get(table, 0)
  ELSE device_get(table, CaseOf("device", hash))

\* device::table::get(const std::uint_least64_t)
device_get_hash(table, hash) ==
  IF CaseOf("device", hash) = -1 THEN NullPtr
  ELSE device_get(table, CaseOf("device", hash))
\* device::table::operator()(const std::uint_least64_t)
device_call_hash(table, hash) == device_get_hash(table, hash)
\* device::table::instance()
device_instance(table) == table.m_instance
\* device::table::device()
device_device(table) == table.m_device

(***************************************************************************)
(* Constructors.                                                           *)
(***************************************************************************)
\* global::table::table without the check of its argument.
global_table_unchecked(global) ==
  LET own == CommandOf("global", "vkGetInstanceProcAddr")
      loaded == LoadCommands("global", 1, global, NullInstance,
                             EmptyPfns(GLOBAL_COMMAND_COUNT))
  IN Built([alive |-> TRUE, m_pfns |-> [loaded EXCEPT ![own] = global]],
           LoadCalls("global", global, NullInstance),
           Append(LoadWrites("global"), own))

\* global::table::table without the final store of its argument: the slot
\* of vkGetInstanceProcAddr keeps what the loader resolved for its own name.
global_table_self_resolved(global) ==
  IF global = NullPfn THEN Thrown(NoGlobalTable)
  ELSE Built([alive |-> TRUE,
              m_pfns |-> LoadCommands("global", 1, global, NullInstance,
                                      EmptyPfns(GLOBAL_COMMAND_COUNT))],
             LoadCalls("global", global, NullInstance),
             LoadWrites("global"))

\* global::table::table that leaves vkGetInstanceProcAddr out of the
\* commands it resolves through its argument.
global_table_skipping_own(global) ==
  IF global = NullPfn THEN Thrown(NoGlobalTable)
  ELSE LET own == CommandOf("global", "vkGetInstanceProcAddr")
           loaded == LoadCommands("global", 1, global, NullInstance,
                                  EmptyPfns(GLOBAL_COMMAND_COUNT))
           NotOwnCall(call) == call.name # "vkGetInstanceProcAddr"
           NotOwnWrite(cmd) == cmd # own
       IN Built([alive |-> TRUE, m_pfns |-> [loaded EXCEPT ![own] = global]],
                SelectSeq(LoadCalls("global", global, NullInstance), NotOwnCall),
                Append(SelectSeq(LoadWrites("global"), NotOwnWrite), own))

\* global::table::table(const PFN_vkGetInstanceProcAddr global)
global_table(global) ==
  IF global = NullPfn THEN Thrown(NoGlobalTable)
  ELSE LET own == CommandOf("global", "vkGetInstanceProcAddr")
           loaded == LoadCommands("global", 1, global, NullInstance,
                                  EmptyPfns(GLOBAL_COMMAND_COUNT))
       IN Built([alive |-> TRUE, m_pfns |-> [loaded EXCEPT ![own] = global]],
                LoadCalls("global", global, NullInstance),
                Append(LoadWrites("global"), own))

\* instance::table::table resolving against the null handle, as the global
\* table does, instead of against its instance.
instance_table_null_context(global, instance) ==
  IF instance = NullInstance THEN Thrown(NoInstanceTable)
  ELSE LET cl == Deref(global, global_get(global, CommandOf("global", "vkGetInstanceProcAddr")))
       IN Built([alive |-> TRUE, m_instance |-> instance,
                 m_pfns |-> LoadCommands("instance", 1, cl, NullInstance,
                                         EmptyPfns(INSTANCE_COMMAND_COUNT))],
                LoadCalls("instance", cl, NullInstance),
                LoadWrites("instance"))

\* instance::table::table(const global::table& global, const VkInstance instance)
\* instance::table::table without the check of instance.
instance_table_unchecked(global, instance) ==
  LET cl == Deref(global, global_get(global, CommandOf("global", "vkGetInstanceProcAddr")))
  IN Built([alive |-> TRUE, m_instance |-> instance,
            m_pfns |-> LoadCommands("instance", 1, cl, instance,
                                    EmptyPfns(INSTANCE_COMMAND_COUNT))],
           LoadCalls("instance", cl, instance),
           LoadWrites("instance"))

instance_table(global, instance) ==
  IF instance = NullInstance THEN Thrown(NoInstanceTable)
  ELSE LET ppfn == global_get(global, CommandOf("global", "vkGetInstanceProcAddr"))
           cl == Deref(global, ppfn)
       IN IF ppfn.err THEN Thrown(NoInstanceTable)
          ELSE Built([alive |-> TRUE, m_instance |-> instance,
                      m_pfns |-> LoadCommands("instance", 1, cl, instance,
                                              EmptyPfns(INSTANCE_COMMAND_COUNT))],
                     LoadCalls("instance", cl, instance),
                     LoadWrites("instance"))

\* device::table::table(global, instance table, device) that never stores
\* m_instance.
device_table_1_no_instance(global, instance, device) ==
  IF device = NullDevice THEN Thrown(NoDeviceTable)
  ELSE LET gipa == Deref(global, global_get(global, CommandOf("global", "vkGetInstanceProcAddr")))
           cl == Invoke(gipa, instance_instance(instance), "vkGetDeviceProcAddr")
       IN Built([alive |-> TRUE, m_instance |-> NullInstance, m_device |-> device,
                 m_pfns |-> LoadCommands("device", 1, cl, device,
                                         EmptyPfns(DEVICE_COMMAND_COUNT))],
                <<Invocation(gipa, instance_instance(instance), "vkGetDeviceProcAddr")>>
                  \o LoadCalls("device", cl, device),
                LoadWrites("device"))

\* device_table_1 resolving the commands through the loader that the loader
\* of the instance returns for the device, as an earlier revision did.
device_table_1_two_steps(global, instance, device) ==
  IF device = NullDevice THEN Thrown(NoDeviceTable)
  ELSE LET gipa == Deref(global, global_get(global, CommandOf("global", "vkGetInstanceProcAddr")))
           igdpa == Invoke(gipa, instance_instance(instance), "vkGetDeviceProcAddr")
           cl == Invoke(igdpa, device, "vkGetDeviceProcAddr")
       IN Built([alive |-> TRUE, m_instance |-> instance_instance(instance),
                 m_device |-> device,
                 m_pfns |-> LoadCommands("device", 1, cl, device,
                                         EmptyPfns(DEVICE_COMMAND_COUNT))],
                <<Invocation(gipa, instance_instance(instance), "vkGetDeviceProcAddr"),
                  Invocation(igdpa, device, "vkGetDeviceProcAddr")>>
                  \o LoadCalls("device", cl, device),
                LoadWrites("device"))

\* device::table::table(const global::table& global,
\*                      const instance::table& instance, const VkDevice device)
device_table_1(global, instance, device) ==
  IF device = NullDevice THEN Thrown(NoDeviceTable)
  ELSE LET ppfn == global_get(global, CommandOf("global", "vkGetInstanceProcAddr"))
           gipa == Deref(global, ppfn)
           cl == Invoke(gipa, instance_instance(instance), "vkGetDeviceProcAddr")
       IN IF ppfn.err THEN Thrown(NoDeviceTable)
          ELSE Built([alive |-> TRUE, m_instance |-> instance_instance(instance),
                      m_device |-> device,
                      m_pfns |-> LoadCommands("device", 1, cl, device,
                                              EmptyPfns(DEVICE_COMMAND_COUNT))],
                     <<Invocation(gipa, instance_instance(instance), "vkGetDeviceProcAddr")>>
                       \o LoadCalls("device", cl, device),
                     LoadWrites("device"))

\* device::table::table(global, instance) without the check of its handle.
device_table_2_unchecked(global, instance) ==
  LET cl == Deref(global, global_get(global, CommandOf("global", "vkGetInstanceProcAddr")))
  IN Built([alive |-> TRUE, m_instance |-> instance, m_device |-> NullDevice,
            m_pfns |-> LoadCommands("device", 1, cl, instance,
                                    EmptyPfns(DEVICE_COMMAND_COUNT))],
           LoadCalls("device", cl, instance),
           LoadWrites("device"))

\* device_table_2 resolving the commands through the loader the root loader
\* returns for "vkGetDeviceProcAddr".
device_table_2_one_step(global, instance) ==
  IF instance = NullInstance THEN Thrown(NoDeviceTable)
  ELSE LET gipa == Deref(global, global_get(global, CommandOf("global", "vkGetInstanceProcAddr")))
           cl == Invoke(gipa, instance, "vkGetDeviceProcAddr")
       IN Built([alive |-> TRUE, m_instance |-> instance, m_device |-> NullDevice,
                 m_pfns |-> LoadCommands("device", 1, cl, instance,
                                         EmptyPfns(DEVICE_COMMAND_COUNT))],
                <<Invocation(gipa, instance, "vkGetDeviceProcAddr")>>
                  \o LoadCalls("device", cl, instance),
                LoadWrites("device"))

\* device::table::table(const global::table& global, const VkInstance instance)
device_table_2(global, instance) ==
  IF instance = NullInstance THEN Thrown(NoDeviceTable)
  ELSE LET ppfn == global_get(global, CommandOf("global", "vkGetInstanceProcAddr"))
           cl == Deref(global, ppfn)
       IN IF ppfn.err THEN Thrown(NoDeviceTable)
          ELSE Built([alive |-> TRUE, m_instance |-> instance, m_device |-> NullDevice,
                      m_pfns |-> LoadCommands("device", 1, cl, instance,
                                              EmptyPfns(DEVICE_COMMAND_COUNT))],
                     LoadCalls("device", cl, instance),
                     LoadWrites("device"))

\* device_table_3 resolving the commands as the constructor from an
\* instance table and a device does, through the loader the root loader
\* returns for "vkGetDeviceProcAddr".
device_table_3_as_variant_1(global, instance) ==
  LET gipa == Deref(global, global_get(global, CommandOf("global", "vkGetInstanceProcAddr")))
      cl == Invoke(gipa, instance_instance(instance), "vkGetDeviceProcAddr")
  IN Built([alive |-> TRUE, m_instance |-> instance_instance(instance),
            m_device |-> NullDevice,
            m_pfns |-> LoadCommands("device", 1, cl, instance_instance(instance),
                                    EmptyPfns(DEVICE_COMMAND_COUNT))],
           <<Invocation(gipa, instance_instance(instance), "vkGetDeviceProcAddr")>>
             \o LoadCalls("device", cl, instance_instance(instance)),
           LoadWrites("device"))

\* device::table::table(const global::table& global, const instance::table& instance)
device_table_3(global, instance) ==
  LET ppfn == global_get(global, CommandOf("global", "vkGetInstanceProcAddr"))
      cl == Deref(global, ppfn)
  IN IF ppfn.err THEN Thrown(NoDeviceTable)
     ELSE Built([alive |-> TRUE, m_instance |-> instance_instance(instance),
                 m_device |-> NullDevice,
                 m_pfns |-> LoadCommands("device", 1, cl, instance_instance(instance),
                                         EmptyPfns(DEVICE_COMMAND_COUNT))],
                LoadCalls("device", cl, instance_instance(instance)),
                LoadWrites("device"))

\* device::table::table(base, device) without the check of base.device().
device_table_4_respecialize(base, device) ==
  IF device = NullDevice THEN Thrown(NoDeviceTable)
  ELSE LET cl == Deref(base, device_get(base, CommandOf("device", "vkGetDeviceProcAddr")))
       IN Built([alive |-> TRUE, m_instance |-> base.m_instance, m_device |-> device,
                 m_pfns |-> LoadCommands("device", 1, cl, device,
                                         EmptyPfns(DEVICE_COMMAND_COUNT))],
                LoadCalls("device", cl, device),
                LoadWrites("device"))

\* device_table_4 deriving its loader again from the top-level handle, by
\* an invocation of the root loader, instead of reading base's slot.
device_table_4_rederived(base, device) ==
  IF device_device(base) # NullDevice THEN Thrown(NoDeviceTable)
  ELSE IF device = NullDevice THEN Thrown(NoDeviceTable)
  ELSE LET slot == Deref(base, device_get(base, CommandOf("device", "vkGetDeviceProcAddr")))
           gipa == IF Callable(slot) THEN RootLoader(slot.root) ELSE slot
           cl == Invoke(gipa, base.m_instance, "vkGetDeviceProcAddr")
       IN Built([alive |-> TRUE, m_instance |-> base.m_instance, m_device |-> device,
                 m_pfns |-> LoadCommands("device", 1, cl, device,
                                         EmptyPfns(DEVICE_COMMAND_COUNT))],
                <<Invocation(gipa, base.m_instance, "vkGetDeviceProcAddr")>>
                  \o LoadCalls("device", cl, device),
                LoadWrites("device"))

\* device::table::table(const table& base, const VkDevice device)
device_table_4(base, device) ==
  IF device_device(base) # NullDevice THEN Thrown(NoDeviceTable)
  ELSE IF device = NullDevice THEN Thrown(NoDeviceTable)
  ELSE LET ppfn == device_get(base, CommandOf("device", "vkGetDeviceProcAddr"))
           cl == Deref(base, ppfn)
       IN IF ppfn.err THEN Thrown(NoDeviceTable)
          ELSE Built([alive |-> TRUE, m_instance |-> base.m_instance, m_device |-> device,
                      m_pfns |-> LoadCommands("device", 1, cl, device,
                                              EmptyPfns(DEVICE_COMMAND_COUNT))],
                     LoadCalls("device", cl, device),
                     LoadWrites("device"))

(***************************************************************************)
(* Copying and destroying.  All three table classes declare the same       *)
(* defaulted members; each operation comes to the objects it leaves.       *)
(***************************************************************************)
\* The storage of an object of a scope's table class that does not exist.
NoTable(scope) ==
  CASE scope = "global" -> NoGlobalTable
    [] scope = "instance" -> NoInstanceTable
    [] scope = "device" -> NoDeviceTable

\* table(const table& other) = default: the new object gets a copy of
\* every member of other.
copy_table(other) == [self |-> other, other |-> other]

\* operator= that exchanges the members of the two objects.
assign_table_swapped(self, rhs) == [self |-> rhs, other |-> self]

\* table& operator=(const table& rhs) = default: every member of the
\* object is assigned from rhs.
assign_table(self, rhs) == [self |-> rhs, other |-> rhs]

\* ~table() noexcept = default applied to the object id of a pool of
\* objects of a scope, ending every object of the pool.
destroy_table_and_dependents(scope, tabs, id) ==
  [k \in DOMAIN tabs |-> NoTable(scope)]

\* ~table() noexcept = default applied to the object id of a pool of
\* objects of a scope: the object's storage is released; nothing else is
\* touched.
destroy_table(scope, tabs, id) == [tabs EXCEPT ![id] = NoTable(scope)]

(***************************************************************************)
(* The client program: a pool of table objects, and the record of the      *)
(* operation it performed last.                                            *)
(***************************************************************************)
\* gtabs, itabs, dtabs: the table objects; last: the operation performed
\* last; loads: for each table object, the loader invocations the
\* constructor that built it made.
\* runs: the constructor calls in progress, when the client makes them on
\* several threads.
VARIABLES gtabs, itabs, dtabs, last, loads, runs, fnv
vars == <<gtabs, itabs, dtabs, last, loads, config, runs, fnv>>

\* The threads of the client program.
Procs == {1, 2}

\* What a thread that is in no constructor call holds.
IdleRun ==
  [pc |-> "idle", op |-> "none", scope |-> "none", id |-> 0,
   g |-> 0, i |-> 0, base |-> 0,
   instance |-> NullInstance, device |-> NullDevice,
   cl |-> NullPfn, k |-> 0, r |-> NullPfn, outcome |-> "ok", mixed |-> FALSE]

\* The table objects the client program declares.
GlobalIds == {1}
InstanceIds == {1}
DeviceIds == {1, 2}
\* The global table objects of a client program that also copies tables
\* and ends their lifetimes.
LifetimeGlobalIds == {1, 2}

ZeroHash == <<0, 0, 0, 0, 0, 0, 0, 0>>
\* The hash field of a record of an operation that took no hash.
NoHash == <<>>

\* A 64-bit value that differs from h in its top bit only.
FlipTopBit(h) == [h EXCEPT ![8] = BitXor(@, 128)]

\* Hashes of names that no scope lists.
UNKNOWN_NAME_HASHES ==
  HashesFrom(<<"vkNotARealVulkanCommandMEGATECH", "foobar", "">>, 1)

Range(seq) == {seq[k] : k \in 1..Len(seq)}

\* The hash values the client looks up: the hashes of every scope's command
\* names, of names no scope lists, and values that are no name's hash.
HashProbes ==
  UNION {Range(BUILD_CASE_LABELS[build][sc]) : build \in Builds, sc \in Scopes}
    \cup Range(UNKNOWN_NAME_HASHES)
    \cup {FlipTopBit(BUILD_CASE_LABELS[BUILD_1_1][sc][1]) : sc \in Scopes}
    \cup {ZeroHash}

\* The command values the client looks up: the enumerators and two
\* ill-formed values past the end.
CommandProbes(scope) == 0..(Len(CommandList(scope)) + 1)

(***************************************************************************)
(* Conversions between hashes and command identifiers.  A conversion       *)
(* returns a command, returns a hash, or throws dispatch::error.           *)
(***************************************************************************)
ConvError == [err |-> TRUE, cmd |-> -1, hash |-> NoHash]
AsCommand(cmd) == [err |-> FALSE, cmd |-> cmd, hash |-> NoHash]
AsHash(hash) == [err |-> FALSE, cmd |-> -1, hash |-> hash]
\* The conv and back fields of a record of an operation that converted
\* nothing.
NoConv == [err |-> FALSE, cmd |-> -1, hash |-> NoHash]

\* to_command whose default label returns the first enumerator.
to_command_defaulting(scope, hash) ==
  IF CaseOf(scope, hash) = -1 THEN AsCommand(0) ELSE AsCommand(CaseOf(scope, hash))

\* to_command(const std::uint_least64_t hash) of a scope's namespace:
\* switch (hash) { case fnv_1a_cstr(#name): return command::name; ...
\* default: throw }.
to_command(scope, hash) ==
  IF CaseOf(scope, hash) = -1 THEN ConvError ELSE AsCommand(CaseOf(scope, hash))

\* to_hash with every case returning the hash of the name listed after its
\* own (the last one returning the first name's).
to_hash_shifted(scope, cmd) ==
  LET hits == {k \in 1..Len(CommandList(scope)) :
                 CommandOf(scope, CommandList(scope)[k]) = cmd}
  IN IF hits = {} THEN ConvError
     ELSE AsHash(CaseLabels(scope)[((CHOOSE k \in hits : TRUE) % Len(CommandList(scope))) + 1])

\* to_hash(const command cmd) of a scope's namespace:
\* switch (cmd) { case command::name: return fnv_1a_cstr(#name); ...
\* default: throw }.
to_hash(scope, cmd) ==
  LET hits == {k \in 1..Len(CommandList(scope)) :
                 CommandOf(scope, CommandList(scope)[k]) = cmd}
  IN IF hits = {} THEN ConvError
     ELSE AsHash(CaseLabels(scope)[CHOOSE k \in hits : TRUE])

NoOp ==
  [op |-> "none", scope |-> "none", id |-> 0, outcome |-> "ok",
   calls |-> <<>>, writes |-> <<>>,
   loader |-> NullPfn, g |-> 0, i |-> 0, base |-> 0,
   instance |-> NullInstance, device |-> NullDevice,
   cmd |-> -1, hash |-> NoHash, ret |-> NullPtr, val |-> NullPfn,
   conv |-> NoConv, back |-> NoConv, other |-> 0, size |-> -1]

\* The table object (scope, id).
TableAt(scope, id) ==
  CASE scope = "global" -> gtabs[id]
    [] scope = "instance" -> itabs[id]
    [] scope = "device" -> dtabs[id]

\* The pool of a scope's table objects.
Pool(scope) ==
  CASE scope = "global" -> gtabs
    [] scope = "instance" -> itabs
    [] scope = "device" -> dtabs

\* The table objects of a scope the client program declares.
TableIds(scope) == DOMAIN Pool(scope)

\* The client declares global table objects gids; no table object exists
\* yet and nothing was done.
NothingBuilt(gids) ==
  /\ gtabs = [id \in gids |-> NoGlobalTable]
  /\ itabs = [id \in InstanceIds |-> NoInstanceTable]
  /\ dtabs = [id \in DeviceIds |-> NoDeviceTable]
  /\ last = NoOp
  /\ runs = [p \in Procs |-> IdleRun]
  /\ loads = [scope \in Scopes |->
                [id \in (CASE scope = "global" -> gids
                            [] scope = "instance" -> InstanceIds
                            [] scope = "device" -> DeviceIds) |-> <<>>]]

(***************************************************************************)
(* A call of basic_fnv_1a_cstr, statement by statement.                    *)
(***************************************************************************)
\* The strings hashed have up to MaxStrLen bytes before the NUL.
MaxStrLen == 3

\* The bytes of the strings hashed: 'a' and a byte that is negative as a
\* signed char.
StrBytes == {97, 200}

RECURSIVE StringsUpTo(_)
\* The NUL-terminated strings of up to n bytes, without their NUL.
StringsUpTo(n) ==
  IF n = 0 THEN {<<>>}
  ELSE StringsUpTo(n - 1) \cup
       {s \o <<c>> : s \in {t \in StringsUpTo(n - 1) : Len(t) = n - 1}, c \in StrBytes}

\* The strings the program hashes: every string of up to MaxStrLen bytes and
\* the string of the regression test.
TestStrings == StringsUpTo(MaxStrLen) \cup {NameBytes("foobar")}

\* 0x811c9dc5 and 0x1000193 as std::uint32_t and as std::uint64_t
FNV32_OFFSET == <<197, 157, 28, 129>>
FNV32_PRIME == <<147, 1, 0, 1>>
FNV32_OFFSET_64 == <<197, 157, 28, 129, 0, 0, 0, 0>>
FNV32_PRIME_64 == <<147, 1, 0, 1, 0, 0, 0, 0>>

\* The instantiations basic_fnv_1a_cstr<Type, Offset, Prime, MaxDigits>:
\* fnv_1a_cstr, the 32-bit function in 32 and in 64 bits of storage, a
\* function of 32 digits whose offset basis has more, and a function of 16
\* digits in 32 bits of storage.
Instantiations ==
  {[Offset |-> FNV64_OFFSET, Prime |-> FNV64_PRIME, MaxDigits |-> 64],
   [Offset |-> FNV32_OFFSET, Prime |-> FNV32_PRIME, MaxDigits |-> 32],
   [Offset |-> FNV32_OFFSET_64, Prime |-> FNV32_PRIME_64, MaxDigits |-> 32],
   [Offset |-> FNV64_OFFSET, Prime |-> FNV32_PRIME_64, MaxDigits |-> 32],
   [Offset |-> <<197, 157, 0, 0>>, Prime |-> <<147, 1, 0, 0>>, MaxDigits |-> 16]}

\* No call of the hash function.
NoHashCall ==
  [pc |-> "none", Offset |-> <<>>, Prime |-> <<>>, MaxDigits |-> 0,
   charSigned |-> FALSE, str |-> <<>>, pos |-> 0, hash |-> <<>>,
   xors |-> 0, muls |-> 0, ret |-> <<>>]

\* auto hash = static_cast<Type>(Offset); of a call of an instantiation on
\* str, on a build where char is signed or not.
HashCall(inst, str, charSigned) ==
  [NoHashCall EXCEPT !.pc = "while", !.Offset = inst.Offset, !.Prime = inst.Prime,
                     !.MaxDigits = inst.MaxDigits, !.charSigned = charSigned,
                     !.str = str, !.pos = 1, !.hash = inst.Offset]

\* *str: the byte at the pointer, the NUL after the last.
CharAt(call) == IF call.pos <= Len(call.str) THEN call.str[call.pos] ELSE 0

\* while (*str) entered like the body of a do-while loop.
LoopEntered_do_while(call) == call.pos = 1 \/ CharAt(call) # 0

\* while (*str)
LoopEntered(call) == CharAt(call) # 0

\* The program that calls the hash function once.
HashInit ==
  /\ config = BUILD_1_1
  /\ NothingBuilt(GlobalIds)
  /\ fnv \in {HashCall(inst, str, charSigned) :
                inst \in Instantiations, str \in TestStrings,
                charSigned \in BOOLEAN}

\* while (*str): into the body or past the loop.
HashTest ==
  /\ fnv.pc = "while"
  /\ fnv' = [fnv EXCEPT !.pc = IF LoopEntered(fnv) THEN "xor" ELSE "mask"]
  /\ UNCHANGED <<gtabs, itabs, dtabs, last, loads, config, runs>>

\* hash ^= *str;
HashXor ==
  /\ fnv.pc = "xor"
  /\ fnv' = [fnv EXCEPT !.pc = "multiply",
                        !.hash = XorLimbs(@, CharToType(CharAt(fnv), Len(@), fnv.charSigned)),
                        !.xors = @ + 1]
  /\ UNCHANGED <<gtabs, itabs, dtabs, last, loads, config, runs>>

\* hash *= static_cast<Type>(Prime); ++str;
HashMultiply ==
  /\ fnv.pc = "multiply"
  /\ fnv' = [fnv EXCEPT !.pc = "while",
                        !.hash = MulLimbs(@, fnv.Prime),
                        !.pos = @ + 1,
                        !.muls = @ + 1]
  /\ UNCHANGED <<gtabs, itabs, dtabs, last, loads, config, runs>>

\* if constexpr (digits > MaxDigits) return hash & mask; return hash;
HashReturn ==
  /\ fnv.pc = "mask"
  /\ fnv' = [fnv EXCEPT !.pc = "returned",
                        !.ret = IF 8 * Len(fnv.hash) > fnv.MaxDigits
                                THEN MaskLimbs(fnv.hash, fnv.MaxDigits)
                                ELSE fnv.hash]
  /\ UNCHANGED <<gtabs, itabs, dtabs, last, loads, config, runs>>

HashNext == HashTest \/ HashXor \/ HashMultiply \/ HashReturn

HashSpec == HashInit /\ [][HashNext]_vars

\* The client links the library built in the largest configuration.
Init ==
  /\ config = BUILD_1_1
  /\ NothingBuilt(GlobalIds)
  /\ fnv = NoHashCall

\* The client links the library built in any one configuration.
InitAnyBuild ==
  /\ config \in Builds
  /\ NothingBuilt(GlobalIds)
  /\ fnv = NoHashCall

\* The client that also copies tables and ends their lifetimes.
InitLifetime ==
  /\ config = BUILD_1_1
  /\ NothingBuilt(LifetimeGlobalIds)
  /\ fnv = NoHashCall

Running == last.outcome # "crash"

\* The operations that read a table, or convert a value, and change no
\* object.
PureOps ==
  {"get(command)", "operator()(command)", "get(hash)", "operator()(hash)",
   "to_command", "to_hash", "size()", "instance()", "device()"}

\* A lookup or an accessor reads a table and changes none, and a conversion
\* reads no table at all, so whatever the client does after one leads to
\* the state it leads to when done in its place.  Every operation is
\* therefore taken after an operation that is none of them; this leaves the
\* set of reachable states as it is.
Fresh == last.op \notin PureOps

\* The first invocation made through a pointer that is no function, or 0.
FirstBadCall(calls) ==
  LET bad == {k \in 1..Len(calls) : ~Callable(calls[k].loader)}
  IN IF bad = {} THEN 0 ELSE CHOOSE k \in bad : \A j \in bad : k <= j

\* A call through a null function pointer is undefined: the process dies at
\* that call, or the call returns an indeterminate pointer and the
\* constructor carries on.
Outcomes(res) ==
  IF res.outcome = "ok" /\ FirstBadCall(res.calls) # 0 THEN {"ok", "crash"}
  ELSE {res.outcome}

\* The loader invocations on record once a constructor call for the table
\* object (scope, id) with result res ended with outcome.
Loaded(scope, id, res, outcome) ==
  IF outcome = "ok" THEN [loads EXCEPT ![scope][id] = res.calls] ELSE loads

\* The record of a constructor call with result res that ended with outcome.
Constructed(op, scope, id, res, outcome) ==
  LET j == FirstBadCall(res.calls)
      pre == Len(res.calls) - Len(CommandList(scope))
  IN [NoOp EXCEPT !.op = op, !.scope = scope, !.id = id, !.outcome = outcome,
        !.calls = IF outcome = "crash" THEN SubSeq(res.calls, 1, j) ELSE res.calls,
        !.writes = IF outcome = "crash" THEN SubSeq(res.writes, 1, j - 1 - pre)
                   ELSE res.writes]

\* auto gdt = global::table{ global };
ConstructGlobal(id, global) ==
  /\ Running
  /\ Fresh
  /\ ~gtabs[id].alive
  /\ LET res == global_table(global)
     IN \E outcome \in Outcomes(res) :
          /\ gtabs' = IF outcome = "ok" THEN [gtabs EXCEPT ![id] = res.table] ELSE gtabs
          /\ loads' = Loaded("global", id, res, outcome)
          /\ last' = [Constructed("global::table", "global", id, res, outcome)
                        EXCEPT !.loader = global]
  /\ UNCHANGED <<itabs, dtabs, config, runs, fnv>>

\* auto idt = instance::table{ gdt, instance };
ConstructInstance(id, g, instance) ==
  /\ Running
  /\ Fresh
  /\ ~itabs[id].alive
  /\ gtabs[g].alive
  /\ LET res == instance_table(gtabs[g], instance)
     IN \E outcome \in Outcomes(res) :
          /\ itabs' = IF outcome = "ok" THEN [itabs EXCEPT ![id] = res.table] ELSE itabs
          /\ loads' = Loaded("instance", id, res, outcome)
          /\ last' = [Constructed("instance::table", "instance", id, res, outcome)
                        EXCEPT !.g = g, !.instance = instance]
  /\ UNCHANGED <<gtabs, dtabs, config, runs, fnv>>

\* auto ddt = device::table{ gdt, idt, device };
ConstructDevice1(id, g, i, device) ==
  /\ Running
  /\ Fresh
  /\ ~dtabs[id].alive
  /\ gtabs[g].alive
  /\ itabs[i].alive
  /\ LET res == device_table_1(gtabs[g], itabs[i], device)
     IN \E outcome \in Outcomes(res) :
          /\ dtabs' = IF outcome = "ok" THEN [dtabs EXCEPT ![id] = res.table] ELSE dtabs
          /\ loads' = Loaded("device", id, res, outcome)
          /\ last' = [Constructed("device::table(global, instance table, device)",
                                  "device", id, res, outcome)
                        EXCEPT !.g = g, !.i = i, !.device = device]
  /\ UNCHANGED <<gtabs, itabs, config, runs, fnv>>

\* auto ddt = device::table{ gdt, instance };
ConstructDevice2(id, g, instance) ==
  /\ Running
  /\ Fresh
  /\ ~dtabs[id].alive
  /\ gtabs[g].alive
  /\ LET res == device_table_2(gtabs[g], instance)
     IN \E outcome \in Outcomes(res) :
          /\ dtabs' = IF outcome = "ok" THEN [dtabs EXCEPT ![id] = res.table] ELSE dtabs
          /\ loads' = Loaded("device", id, res, outcome)
          /\ last' = [Constructed("device::table(global, instance)",
                                  "device", id, res, outcome)
                        EXCEPT !.g = g, !.instance = instance]
  /\ UNCHANGED <<gtabs, itabs, config, runs, fnv>>

\* auto ddt = device::table{ gdt, idt };
ConstructDevice3(id, g, i) ==
  /\ Running
  /\ Fresh
  /\ ~dtabs[id].alive
  /\ gtabs[g].alive
  /\ itabs[i].alive
  /\ LET res == device_table_3(gtabs[g], itabs[i])
     IN \E outcome \in Outcomes(res) :
          /\ dtabs' = IF outcome = "ok" THEN [dtabs EXCEPT ![id] = res.table] ELSE dtabs
          /\ loads' = Loaded("device", id, res, outcome)
          /\ last' = [Constructed("device::table(global, instance table)",
                                  "device", id, res, outcome)
                        EXCEPT !.g = g, !.i = i]
  /\ UNCHANGED <<gtabs, itabs, config, runs, fnv>>

\* auto ddt = device::table{ base, device };
ConstructDevice4(id, base, device) ==
  /\ Running
  /\ Fresh
  /\ ~dtabs[id].alive
  /\ dtabs[base].alive
  /\ LET res == device_table_4(dtabs[base], device)
     IN \E outcome \in Outcomes(res) :
          /\ dtabs' = IF outcome = "ok" THEN [dtabs EXCEPT ![id] = res.table] ELSE dtabs
          /\ loads' = Loaded("device", id, res, outcome)
          /\ last' = [Constructed("device::table(base, device)",
                                  "device", id, res, outcome)
                        EXCEPT !.base = base, !.device = device]
  /\ UNCHANGED <<gtabs, itabs, config, runs, fnv>>

\* table.size() on the table of a scope.
Size(scope, table) ==
  CASE scope = "global" -> global_size(table)
    [] scope = "instance" -> instance_size(table)
    [] scope = "device" -> device_size(table)

Vias == {"get", "operator()"}

\* table.get(cmd) or table(cmd) on the table of a scope.
GetCommand(scope, table, via, cmd) ==
  CASE scope = "global" ->
         IF via = "get" THEN global_get(table, cmd) ELSE global_call(table, cmd)
    [] scope = "instance" ->
         IF via = "get" THEN instance_get(table, cmd) ELSE instance_call(table, cmd)
    [] scope = "device" ->
         IF via = "get" THEN device_get(table, cmd) ELSE device_call(table, cmd)

\* table.get(hash) or table(hash) on the table of a scope.
GetHash(scope, table, via, hash) ==
  CASE scope = "global" ->
         IF via = "get" THEN global_get_hash(table, hash) ELSE global_call_hash(table, hash)
    [] scope = "instance" ->
         IF via = "get" THEN instance_get_hash(table, hash) ELSE instance_call_hash(table, hash)
    [] scope = "device" ->
         IF via = "get" THEN device_get_hash(table, hash) ELSE device_call_hash(table, hash)

\* The record of a lookup that returned ret.
LookedUp(op, scope, id, ret) ==
  [NoOp EXCEPT !.op = op, !.scope = scope, !.id = id,
     !.outcome = IF ret.err THEN "error" ELSE "ok",
     !.ret = ret,
     !.val = IF ret.found THEN Deref(TableAt(scope, id), ret) ELSE NullPfn]

\* const auto ppfn = dt.get(cmd);  /  dt(cmd);
LookupCommand ==
  /\ Running
  /\ Fresh
  /\ \E scope \in Scopes :
       \E id \in TableIds(scope), via \in Vias, cmd \in CommandProbes(scope) :
         /\ TableAt(scope, id).alive
         /\ last' = [LookedUp(via \o "(command)", scope, id,
                              GetCommand(scope, TableAt(scope, id), via, cmd))
                       EXCEPT !.cmd = cmd]
  /\ UNCHANGED <<gtabs, itabs, dtabs, loads, config, runs, fnv>>

\* const auto ppfn = dt.get(hash);  /  dt(hash);
LookupHash ==
  /\ Running
  /\ Fresh
  /\ \E scope \in Scopes :
       \E id \in TableIds(scope), via \in Vias, hash \in HashProbes :
         /\ TableAt(scope, id).alive
         /\ last' = [LookedUp(via \o "(hash)", scope, id,
                              GetHash(scope, TableAt(scope, id), via, hash))
                       EXCEPT !.hash = hash]
  /\ UNCHANGED <<gtabs, itabs, dtabs, loads, config, runs, fnv>>

\* dt.size(); dt.instance(); dt.device();
ReadAccessor ==
  /\ Running
  /\ Fresh
  /\ \E scope \in Scopes : \E id \in TableIds(scope) :
       /\ TableAt(scope, id).alive
       /\ \/ last' = [NoOp EXCEPT !.op = "size()", !.scope = scope, !.id = id,
                                  !.size = Size(scope, TableAt(scope, id))]
          \/ /\ scope = "instance"
             /\ last' = [NoOp EXCEPT !.op = "instance()", !.scope = scope, !.id = id,
                                     !.instance = instance_instance(TableAt(scope, id))]
          \/ /\ scope = "device"
             /\ last' = [NoOp EXCEPT !.op = "instance()", !.scope = scope, !.id = id,
                                     !.instance = device_instance(TableAt(scope, id))]
          \/ /\ scope = "device"
             /\ last' = [NoOp EXCEPT !.op = "device()", !.scope = scope, !.id = id,
                                     !.device = device_device(TableAt(scope, id))]
  /\ UNCHANGED <<gtabs, itabs, dtabs, loads, config, runs, fnv>>

\* The pool of a scope's table objects becomes tabs.
StorePool(scope, tabs) ==
  /\ gtabs' = IF scope = "global" THEN tabs ELSE gtabs
  /\ itabs' = IF scope = "instance" THEN tabs ELSE itabs
  /\ dtabs' = IF scope = "device" THEN tabs ELSE dtabs

\* auto copy = table{ other };
CopyConstruct ==
  /\ Running
  /\ Fresh
  /\ \E scope \in Scopes : \E id \in TableIds(scope), other \in TableIds(scope) :
       /\ ~TableAt(scope, id).alive
       /\ TableAt(scope, other).alive
       /\ LET res == copy_table(TableAt(scope, other))
          IN StorePool(scope, [Pool(scope) EXCEPT ![other] = res.other, ![id] = res.self])
       /\ loads' = [loads EXCEPT ![scope][id] = loads[scope][other]]
       /\ last' = [NoOp EXCEPT !.op = "table(const table&)", !.scope = scope,
                               !.id = id, !.other = other]
  /\ UNCHANGED <<config, runs, fnv>>

\* dt = rhs;
CopyAssign ==
  /\ Running
  /\ Fresh
  /\ \E scope \in Scopes : \E id \in TableIds(scope), rhs \in TableIds(scope) :
       /\ TableAt(scope, id).alive
       /\ TableAt(scope, rhs).alive
       /\ LET res == assign_table(TableAt(scope, id), TableAt(scope, rhs))
          IN StorePool(scope, [Pool(scope) EXCEPT ![rhs] = res.other, ![id] = res.self])
       /\ loads' = [loads EXCEPT ![scope][id] = loads[scope][rhs]]
       /\ last' = [NoOp EXCEPT !.op = "operator=", !.scope = scope,
                               !.id = id, !.other = rhs]
  /\ UNCHANGED <<config, runs, fnv>>

\* The end of the lifetime of a table object.
Destroy ==
  /\ Running
  /\ Fresh
  /\ \E scope \in Scopes : \E id \in TableIds(scope) :
       /\ TableAt(scope, id).alive
       /\ StorePool(scope, destroy_table(scope, Pool(scope), id))
       /\ loads' = [loads EXCEPT ![scope][id] = <<>>]
       /\ last' = [NoOp EXCEPT !.op = "~table", !.scope = scope, !.id = id]
  /\ UNCHANGED <<config, runs, fnv>>

\* The record of a conversion of a scope's namespace that returned conv and
\* whose result, when there is one, was converted back to back.
Converted(op, scope, conv, back) ==
  [NoOp EXCEPT !.op = op, !.scope = scope,
     !.outcome = IF conv.err \/ back.err THEN "error" ELSE "ok",
     !.conv = conv, !.back = back]

\* const auto cmd = to_command(hash); const auto again = to_hash(cmd);
ConvertHash ==
  /\ Running
  /\ Fresh
  /\ \E scope \in Scopes, hash \in HashProbes :
       LET conv == to_command(scope, hash)
       IN last' = [Converted("to_command", scope, conv,
                             IF conv.err THEN NoConv ELSE to_hash(scope, conv.cmd))
                     EXCEPT !.hash = hash]
  /\ UNCHANGED <<gtabs, itabs, dtabs, loads, config, runs, fnv>>

\* const auto hash = to_hash(cmd); const auto again = to_command(hash);
ConvertCommand ==
  /\ Running
  /\ Fresh
  /\ \E scope \in Scopes : \E cmd \in CommandProbes(scope) :
       LET conv == to_hash(scope, cmd)
       IN last' = [Converted("to_hash", scope, conv,
                             IF conv.err THEN NoConv ELSE to_command(scope, conv.hash))
                     EXCEPT !.cmd = cmd]
  /\ UNCHANGED <<gtabs, itabs, dtabs, loads, config, runs, fnv>>

\* What the client passes to global::table: a loader function or nullptr.
LoaderArguments == {RootLoader(r) : r \in RootLoaders} \cup {NullPfn}

(***************************************************************************)
(* Constructor calls on several threads.  A call of a constructor of a     *)
(* dependent table is taken apart into its checks and the read of its      *)
(* loader, each loader invocation, each slot write, and the stores of the  *)
(* handles; the steps of the calls of different threads interleave.        *)
(***************************************************************************)
OP_INSTANCE == "instance::table"
OP_DEVICE_1 == "device::table(global, instance table, device)"
OP_DEVICE_2 == "device::table(global, instance)"
OP_DEVICE_3 == "device::table(global, instance table)"
OP_DEVICE_4 == "device::table(base, device)"

\* No thread is in a constructor call or has been.
Quiet == \A p \in Procs : runs[p].pc = "idle"

\* Thread p is between the first and the last step of a constructor call.
InProgress(p) == runs[p].pc \in {"resolve", "call", "write", "handles"}

\* No thread is constructing the table object (scope, id).
Untargeted(scope, id) ==
  \A q \in Procs : ~(InProgress(q) /\ runs[q].scope = scope /\ runs[q].id = id)

\* Thread p takes a step that brings its call to run; the step interleaves
\* with another call when some other thread is in the middle of one.
Stepped(p, run) ==
  [runs EXCEPT ![p] = [run EXCEPT !.mixed = @ \/ \E q \in Procs \ {p} : InProgress(q)]]

\* The call of thread p starts: its checks throw, or it reads its loader cl
\* from its parent and goes on at pc.
Started(p, op, scope, id, args, throws, cl, pc) ==
  /\ Running
  /\ runs[p].pc = "idle"
  /\ ~Pool(scope)[id].alive
  /\ Untargeted(scope, id)
  /\ runs' = Stepped(p, [args EXCEPT !.op = op, !.scope = scope, !.id = id,
                           !.pc = IF throws THEN "done" ELSE pc,
                           !.outcome = IF throws THEN "error" ELSE "ok",
                           !.cl = IF throws THEN NullPfn ELSE cl,
                           !.k = 1])
  /\ UNCHANGED <<gtabs, itabs, dtabs, last, loads, config, fnv>>

\* instance::table::table: the check of instance and the read of cl.
BeginInstance(p, id, g, instance) ==
  /\ gtabs[g].alive
  /\ Started(p, OP_INSTANCE, "instance", id,
             [IdleRun EXCEPT !.g = g, !.instance = instance],
             instance = NullInstance,
             Deref(gtabs[g], global_get(gtabs[g], CommandOf("global", "vkGetInstanceProcAddr"))),
             "call")

\* device::table::table(global, instance, device): the check of device and
\* the read of gipa.
BeginDevice1(p, id, g, i, device) ==
  /\ gtabs[g].alive
  /\ itabs[i].alive
  /\ Started(p, OP_DEVICE_1, "device", id,
             [IdleRun EXCEPT !.g = g, !.i = i, !.device = device],
             device = NullDevice,
             Deref(gtabs[g], global_get(gtabs[g], CommandOf("global", "vkGetInstanceProcAddr"))),
             "resolve")

\* device::table::table(global, instance): the check of instance and the
\* read of cl.
BeginDevice2(p, id, g, instance) ==
  /\ gtabs[g].alive
  /\ Started(p, OP_DEVICE_2, "device", id,
             [IdleRun EXCEPT !.g = g, !.instance = instance],
             instance = NullInstance,
             Deref(gtabs[g], global_get(gtabs[g], CommandOf("global", "vkGetInstanceProcAddr"))),
             "call")

\* device::table::table(global, instance table): the read of cl.
BeginDevice3(p, id, g, i) ==
  /\ gtabs[g].alive
  /\ itabs[i].alive
  /\ Started(p, OP_DEVICE_3, "device", id,
             [IdleRun EXCEPT !.g = g, !.i = i],
             FALSE,
             Deref(gtabs[g], global_get(gtabs[g], CommandOf("global", "vkGetInstanceProcAddr"))),
             "call")

\* device::table::table(base, device): the checks of base.device() and of
\* device and the read of cl.
BeginDevice4(p, id, base, device) ==
  /\ dtabs[base].alive
  /\ Started(p, OP_DEVICE_4, "device", id,
             [IdleRun EXCEPT !.base = base, !.device = device],
             device_device(dtabs[base]) # NullDevice \/ device = NullDevice,
             Deref(dtabs[base], device_get(dtabs[base], CommandOf("device", "vkGetDeviceProcAddr"))),
             "call")

\* RunLoader with cl kept in one variable that all calls share, as a
\* variable of static storage duration would be.
RunLoader_shared(p) == runs[CHOOSE q \in Procs : \A o \in Procs : q <= o].cl

\* The loader the call of thread p invokes: its local variable cl.
RunLoader(p) == runs[p].cl

\* The ctx argument of the G/I/D macro in the call of thread p; the
\* constructor taking an instance table reads instance.instance() for it
\* at every invocation.
RunContext(p) ==
  CASE runs[p].op = OP_INSTANCE -> runs[p].instance
    [] runs[p].op = OP_DEVICE_1 -> runs[p].device
    [] runs[p].op = OP_DEVICE_2 -> runs[p].instance
    [] runs[p].op = OP_DEVICE_3 -> instance_instance(itabs[runs[p].i])
    [] runs[p].op = OP_DEVICE_4 -> runs[p].device

\* A loader invocation of thread p through cl, after which the call goes
\* on as run, holding the result: through a pointer that is no function the
\* process dies or the call returns an indeterminate pointer.
Invoked(p, cl, run) ==
  \/ /\ runs' = Stepped(p, run)
     /\ UNCHANGED last
  \/ /\ ~Callable(cl)
     /\ runs' = Stepped(p, [runs[p] EXCEPT !.pc = "crashed", !.outcome = "crash"])
     /\ last' = [NoOp EXCEPT !.op = runs[p].op, !.scope = runs[p].scope,
                             !.id = runs[p].id, !.outcome = "crash"]

\* const auto cl = gipa(instance.instance(), "vkGetDeviceProcAddr");
ResolveStep(p) ==
  /\ Running
  /\ runs[p].pc = "resolve"
  /\ Invoked(p, RunLoader(p),
             [runs[p] EXCEPT !.pc = "call",
                             !.cl = Invoke(RunLoader(p), instance_instance(itabs[runs[p].i]),
                                           "vkGetDeviceProcAddr")])
  /\ UNCHANGED <<gtabs, itabs, dtabs, loads, config, fnv>>

\* The right-hand side of m_pfns[command::cmd] = cl(ctx, #cmd) for the
\* k-th command of the list.
CallStep(p) ==
  /\ Running
  /\ runs[p].pc = "call"
  /\ Invoked(p, RunLoader(p),
             [runs[p] EXCEPT !.pc = "write",
                             !.r = Invoke(RunLoader(p), RunContext(p),
                                          CommandList(runs[p].scope)[runs[p].k])])
  /\ UNCHANGED <<gtabs, itabs, dtabs, loads, config, fnv>>

\* The assignment of m_pfns[command::cmd] = cl(ctx, #cmd) for the k-th
\* command of the list.
WriteStep(p) ==
  /\ Running
  /\ runs[p].pc = "write"
  /\ LET scope == runs[p].scope
         cmd == CommandOf(scope, CommandList(scope)[runs[p].k])
     IN /\ StorePool(scope, [Pool(scope) EXCEPT ![runs[p].id].m_pfns[cmd] = runs[p].r])
        /\ runs' = Stepped(p, [runs[p] EXCEPT
                                 !.k = @ + 1,
                                 !.pc = IF runs[p].k = Len(CommandList(scope))
                                        THEN "handles" ELSE "call"])
  /\ UNCHANGED <<last, loads, config, fnv>>

\* The stores of m_instance and m_device that end the constructor; the
\* object's lifetime begins.
FinishStep(p) ==
  /\ Running
  /\ runs[p].pc = "handles"
  /\ LET run == runs[p]
         obj == Pool(run.scope)[run.id]
         built ==
           CASE run.op = OP_INSTANCE ->
                  [obj EXCEPT !.alive = TRUE, !.m_instance = run.instance]
             [] run.op = OP_DEVICE_1 ->
                  [obj EXCEPT !.alive = TRUE,
                              !.m_instance = instance_instance(itabs[run.i]),
                              !.m_device = run.device]
             [] run.op = OP_DEVICE_2 ->
                  [obj EXCEPT !.alive = TRUE, !.m_instance = run.instance]
             [] run.op = OP_DEVICE_3 ->
                  [obj EXCEPT !.alive = TRUE,
                              !.m_instance = instance_instance(itabs[run.i])]
             [] run.op = OP_DEVICE_4 ->
                  [obj EXCEPT !.alive = TRUE,
                              !.m_instance = dtabs[run.base].m_instance,
                              !.m_device = run.device]
     IN StorePool(run.scope, [Pool(run.scope) EXCEPT ![run.id] = built])
  /\ runs' = Stepped(p, [runs[p] EXCEPT !.pc = "done"])
  /\ UNCHANGED <<last, loads, config, fnv>>

Next ==
  \/ \E id \in TableIds("global"), global \in LoaderArguments : ConstructGlobal(id, global)
  \/ \E id \in TableIds("instance"), g \in TableIds("global"),
        h \in InstanceHandles \cup {NullInstance} : ConstructInstance(id, g, h)
  \/ \E id \in TableIds("device"), g \in TableIds("global"), i \in TableIds("instance"),
        d \in DeviceHandles \cup {NullDevice} : ConstructDevice1(id, g, i, d)
  \/ \E id \in TableIds("device"), g \in TableIds("global"),
        h \in InstanceHandles \cup {NullInstance} : ConstructDevice2(id, g, h)
  \/ \E id \in TableIds("device"), g \in TableIds("global"), i \in TableIds("instance") :
       ConstructDevice3(id, g, i)
  \/ \E id \in TableIds("device"), base \in TableIds("device"),
        d \in DeviceHandles \cup {NullDevice} : ConstructDevice4(id, base, d)
  \/ LookupCommand
  \/ LookupHash
  \/ ConvertHash
  \/ ConvertCommand
  \/ ReadAccessor

\* The handles the client that copies and destroys tables passes: one
\* instance, one device, and the null handles.
LifetimeInstanceArguments == {VkInstance(1), NullInstance}
LifetimeDeviceArguments == {VkDevice(1), NullDevice}

LifetimeNext ==
  \/ \E id \in TableIds("global"), global \in LoaderArguments : ConstructGlobal(id, global)
  \/ \E id \in TableIds("instance"), g \in TableIds("global"),
        h \in LifetimeInstanceArguments : ConstructInstance(id, g, h)
  \/ \E id \in TableIds("device"), g \in TableIds("global"), i \in TableIds("instance"),
        d \in LifetimeDeviceArguments : ConstructDevice1(id, g, i, d)
  \/ \E id \in TableIds("device"), g \in TableIds("global"),
        h \in LifetimeInstanceArguments : ConstructDevice2(id, g, h)
  \/ \E id \in TableIds("device"), g \in TableIds("global"), i \in TableIds("instance") :
       ConstructDevice3(id, g, i)
  \/ \E id \in TableIds("device"), base \in TableIds("device"),
        d \in LifetimeDeviceArguments : ConstructDevice4(id, base, d)
  \/ LookupCommand
  \/ LookupHash
  \/ ReadAccessor
  \/ CopyConstruct
  \/ CopyAssign
  \/ Destroy

Spec == Init /\ [][Next]_vars

\* The same client program over the library built in any configuration.
BuildSpec == InitAnyBuild /\ [][Next]_vars

\* The client with threads: it builds parent tables on one thread, then
\* constructs dependent tables on several.
ThreadedNext ==
  \/ Quiet /\ \E id \in TableIds("global"), global \in LoaderArguments :
                ConstructGlobal(id, global)
  \/ Quiet /\ \E id \in TableIds("instance"), g \in TableIds("global"),
                 h \in LifetimeInstanceArguments : ConstructInstance(id, g, h)
  \/ Quiet /\ \E id \in TableIds("device"), g \in TableIds("global"),
                 h \in LifetimeInstanceArguments : ConstructDevice2(id, g, h)
  \/ \E p \in Procs, id \in TableIds("instance"), g \in TableIds("global"),
        h \in LifetimeInstanceArguments : BeginInstance(p, id, g, h)
  \/ \E p \in Procs, id \in TableIds("device"), g \in TableIds("global"),
        i \in TableIds("instance"), d \in LifetimeDeviceArguments :
       BeginDevice1(p, id, g, i, d)
  \/ \E p \in Procs, id \in TableIds("device"), g \in TableIds("global"),
        h \in LifetimeInstanceArguments : BeginDevice2(p, id, g, h)
  \/ \E p \in Procs, id \in TableIds("device"), g \in TableIds("global"),
        i \in TableIds("instance") : BeginDevice3(p, id, g, i)
  \/ \E p \in Procs, id \in TableIds("device"), base \in TableIds("device"),
        d \in LifetimeDeviceArguments : BeginDevice4(p, id, base, d)
  \/ \E p \in Procs : ResolveStep(p)
  \/ \E p \in Procs : CallStep(p)
  \/ \E p \in Procs : WriteStep(p)
  \/ \E p \in Procs : FinishStep(p)

ThreadedSpec == Init /\ [][ThreadedNext]_vars

\* The client program that also copies tables and ends their lifetimes.
LifetimeSpec == InitLifetime /\ [][LifetimeNext]_vars

(***************************************************************************)
(* Properties.                                                             *)
(***************************************************************************)
\* The table the last operation was applied to or tried to build.
Target == TableAt(last.scope, last.id)

IsDevice1 == last.op = "device::table(global, instance table, device)"
IsDevice2 == last.op = "device::table(global, instance)"
IsDevice3 == last.op = "device::table(global, instance table)"
IsDevice4 == last.op = "device::table(base, device)"
IsHashLookup == last.op \in {"get(hash)", "operator()(hash)"}

\* fnv_1a_cstr(#name) for a command name of a scope.
LabelOf(scope, name) == CaseLabels(scope)[CommandOf(scope, name) + 1]

Commands(scope) == 0..(Len(CommandList(scope)) - 1)

\* The last operation threw before it did anything: it invoked no loader,
\* wrote no slot and left no object behind.
FailedCleanly ==
  /\ last.outcome = "error"
  /\ last.calls = <<>>
  /\ last.writes = <<>>
  /\ ~Target.alive

\* C1: global::table(nullptr) fails with dispatch::error; no callback is
\* invoked, no slot is written and no table exists afterwards.
C1_NullLoaderRejected ==
  (last.op = "global::table" /\ last.loader = NullPfn) => FailedCleanly

C1_Witness ==
  /\ last.op = "global::table"
  /\ last.loader = NullPfn
  /\ last.outcome = "error"

\* C2: instance::table(G, null), device::table(G, I, null device) and
\* device::table(G, null instance) fail with dispatch::error before any
\* loader is invoked or any slot written; no partial table is observable and
\* the parent tables are unchanged.
C2_NullHandleRejected ==
  [][ LET nullHandle ==
            \/ last'.op = "instance::table" /\ last'.instance = NullInstance
            \/ last'.op = "device::table(global, instance table, device)"
                 /\ last'.device = NullDevice
            \/ last'.op = "device::table(global, instance)"
                 /\ last'.instance = NullInstance
      IN nullHandle =>
           /\ last'.outcome = "error"
           /\ last'.calls = <<>>
           /\ last'.writes = <<>>
           /\ gtabs' = gtabs
           /\ itabs' = itabs
           /\ dtabs' = dtabs
           /\ last'.scope = "instance" => ~itabs'[last'.id].alive
           /\ last'.scope = "device" => ~dtabs'[last'.id].alive ]_vars

C2_Witness ==
  /\ IsDevice2
  /\ last.instance = NullInstance
  /\ last.outcome = "error"
  /\ gtabs[last.g].alive

\* C3: device::table(base, d) fails with dispatch::error whenever
\* base.device() is non-null or d is null; on failure no loader is invoked,
\* no new table exists, and base keeps its slots and handles.
C3_ExtensionRejected ==
  [][ (/\ last'.op = "device::table(base, device)"
       /\ \/ device_device(dtabs[last'.base]) # NullDevice
          \/ last'.device = NullDevice)
      => /\ last'.outcome = "error"
         /\ last'.calls = <<>>
         /\ last'.writes = <<>>
         /\ ~dtabs'[last'.id].alive
         /\ dtabs'[last'.base] = dtabs[last'.base] ]_vars

C3_Witness ==
  /\ IsDevice4
  /\ device_device(dtabs[last.base]) # NullDevice
  /\ last.device # NullDevice
  /\ last.outcome = "error"

\* C4: device::table(base, d) with base.device() null and d non-null
\* succeeds; the new table's device() is d, its instance() is
\* base.instance(), and base still has a null device().
C4_ExtensionSucceeds ==
  (/\ IsDevice4
   /\ device_device(dtabs[last.base]) = NullDevice
   /\ last.device # NullDevice)
  => /\ last.outcome = "ok"
     /\ Target.alive
     /\ device_device(Target) = last.device
     /\ device_instance(Target) = device_instance(dtabs[last.base])

\* C5: after global::table(L) succeeds, every slot other than the loader's
\* own holds exactly L(null handle, name), null exactly when L returned
\* null, and every slot has been written.
C5_GlobalSlotsResolved ==
  (last.op = "global::table" /\ last.outcome = "ok") =>
    /\ Target.alive
    /\ \A c \in Commands("global") :
         /\ \E k \in 1..Len(last.writes) : last.writes[k] = c
         /\ c # CommandOf("global", "vkGetInstanceProcAddr") =>
              /\ Target.m_pfns[c] = Invoke(last.loader, NullInstance, NameOf("global", c))
              /\ (Target.m_pfns[c] = NullPfn) <=>
                   (NameOf("global", c) \in UnresolvedNames(last.loader.root))

C5_Witness ==
  /\ last.op = "global::table"
  /\ last.outcome = "ok"
  /\ Target.m_pfns[CommandOf("global", "vkEnumerateInstanceVersion")] = NullPfn
  /\ Target.m_pfns[CommandOf("global", "vkCreateInstance")] # NullPfn

\* C6: after global::table(L) succeeds, the slot of vkGetInstanceProcAddr
\* holds L itself, whatever L returns for its own name.
C6_OwnSlotIsLoader ==
  (last.op = "global::table" /\ last.outcome = "ok") =>
    Target.m_pfns[CommandOf("global", "vkGetInstanceProcAddr")] = last.loader

C6_Witness ==
  /\ last.op = "global::table"
  /\ last.outcome = "ok"
  /\ Invoke(last.loader, NullInstance, "vkGetInstanceProcAddr") = NullPfn
  /\ Target.m_pfns[CommandOf("global", "vkGetInstanceProcAddr")] = last.loader

\* C7: after instance::table(G, h) succeeds, every instance command slot
\* holds R(h, name) with R the value of G's vkGetInstanceProcAddr slot, and
\* instance() returns h.
C7_InstanceSlotsResolved ==
  (last.op = "instance::table" /\ last.outcome = "ok") =>
    LET R == gtabs[last.g].m_pfns[CommandOf("global", "vkGetInstanceProcAddr")]
    IN /\ Target.alive
       /\ last.instance # NullInstance
       /\ instance_instance(Target) = last.instance
       /\ \A c \in Commands("instance") :
            Target.m_pfns[c] = Invoke(R, last.instance, NameOf("instance", c))

C7_Witness ==
  /\ last.op = "instance::table"
  /\ last.outcome = "ok"
  /\ instance_instance(Target) = VkInstance(MaxHandle)
  /\ Target.m_pfns[CommandOf("instance", "vkCreateDevice")] # NullPfn

\* C8: after a successful device-table construction instance() is the
\* top-level handle given (the instance table's instance() in variants 1
\* and 3, the handle itself in variant 2) and device() is the child handle
\* in variant 1 and null in variants 2 and 3.
C8_DeviceHandlesStored ==
  last.outcome = "ok" =>
    /\ IsDevice1 =>
         /\ device_instance(Target) = instance_instance(itabs[last.i])
         /\ device_device(Target) = last.device
    /\ IsDevice2 =>
         /\ device_instance(Target) = last.instance
         /\ device_device(Target) = NullDevice
    /\ IsDevice3 =>
         /\ device_instance(Target) = instance_instance(itabs[last.i])
         /\ device_device(Target) = NullDevice

C8_Witness ==
  /\ IsDevice1
  /\ last.outcome = "ok"
  /\ device_device(Target) = VkDevice(1)
  /\ device_instance(Target) = VkInstance(MaxHandle)

\* C9: on every table type, get(h) and operator()(h) with h not the hash of
\* a command name of the table's scope return null and raise no error.
C9_UnknownHashIsNull ==
  (/\ IsHashLookup
   /\ \A n \in Range(CommandList(last.scope)) : LabelOf(last.scope, n) # last.hash)
  => /\ last.outcome = "ok"
     /\ last.ret = NullPtr

C9_Witness ==
  /\ last.op = "operator()(hash)"
  /\ last.scope = "device"
  /\ last.hash = LabelOf("global", "vkGetInstanceProcAddr")
  /\ last.ret = NullPtr

\* C10: on every table type, for every command name n of the scope,
\* get(hash(n)) returns a non-null pointer to the slot get(identifier of n)
\* returns, so both observe the same function pointer.
C10_HashAgreesWithCommand ==
  IsHashLookup =>
    \A n \in Range(CommandList(last.scope)) :
      LabelOf(last.scope, n) = last.hash =>
        /\ last.outcome = "ok"
        /\ last.ret.found
        /\ last.ret = GetCommand(last.scope, Target, "get", CommandOf(last.scope, n))
        /\ last.val = Target.m_pfns[CommandOf(last.scope, n)]

C10_Witness ==
  /\ last.op = "get(hash)"
  /\ last.scope = "device"
  /\ last.hash = LabelOf("device", "vkDestroyDevice")
  /\ last.ret = SlotPtr(CommandOf("device", "vkDestroyDevice"))
  /\ last.val # NullPfn


IsCommandLookup == last.op \in {"get(command)", "operator()(command)"}

\* C11: on every table type, get(cmd) and operator()(cmd) with an
\* identifier whose value is >= size() raise dispatch::error and return no
\* pointer; with an identifier < size() they return a pointer to slot cmd
\* and raise nothing.
C11_CommandLookupBoundsChecked ==
  IsCommandLookup =>
    /\ last.cmd >= Size(last.scope, Target) =>
         /\ last.outcome = "error"
         /\ last.ret = ThrowsError
    /\ last.cmd < Size(last.scope, Target) =>
         /\ last.outcome = "ok"
         /\ last.ret = SlotPtr(last.cmd)
         /\ last.val = Target.m_pfns[last.cmd]

C11_Witness ==
  /\ last.op = "operator()(command)"
  /\ last.scope = "instance"
  /\ last.cmd = instance_size(Target)
  /\ last.outcome = "error"
  /\ ~last.ret.found


\* The hash is the hash of no command name of the scope.
UnknownHash(scope, hash) ==
  \A n \in Range(CommandList(scope)) : LabelOf(scope, n) # hash

\* C12: per scope, for every command name n of the list, to_command(hash(n))
\* is the identifier enumerated for n and to_hash of it is hash(n) again;
\* for every enumerated identifier c, to_command(to_hash(c)) is c.
C12_ConversionsRoundTrip ==
  /\ last.op = "to_command" =>
       \A n \in Range(CommandList(last.scope)) :
         LabelOf(last.scope, n) = last.hash =>
           /\ last.outcome = "ok"
           /\ last.conv = AsCommand(CommandOf(last.scope, n))
           /\ last.back = AsHash(LabelOf(last.scope, n))
  /\ (last.op = "to_hash" /\ last.cmd \in Commands(last.scope)) =>
       /\ last.outcome = "ok"
       /\ last.conv = AsHash(LabelOf(last.scope, NameOf(last.scope, last.cmd)))
       /\ last.back = AsCommand(last.cmd)

C12_Witness ==
  /\ last.op = "to_command"
  /\ last.scope = "device"
  /\ last.hash = LabelOf("device", "vkGetDeviceProcAddr")
  /\ last.conv = AsCommand(2)
  /\ last.back = AsHash(last.hash)

\* C13: per scope, to_command(h) raises dispatch::error for every h that is
\* the hash of no listed command name and to_hash(c) raises dispatch::error
\* for every identifier value c outside 0..count-1; neither returns a
\* substitute value.
C13_ConversionsRejectUnknown ==
  /\ (last.op = "to_command" /\ UnknownHash(last.scope, last.hash)) =>
       /\ last.outcome = "error"
       /\ last.conv = ConvError
  /\ (last.op = "to_hash" /\ last.cmd \notin Commands(last.scope)) =>
       /\ last.outcome = "error"
       /\ last.conv = ConvError

C13_Witness ==
  /\ last.op = "to_command"
  /\ last.scope = "instance"
  /\ last.hash = LabelOf("device", "vkDestroyDevice")
  /\ last.conv = ConvError


\* fnv_1a_cstr(n) for a command name n that some configuration lists.
NameHash(scope, n) ==
  BUILD_CASE_LABELS[BUILD_1_1][scope][
    CHOOSE k \in 1..Len(EnabledCommands(BUILD_1_1, scope)) :
      EnabledCommands(BUILD_1_1, scope)[k] = n]

\* What the constructor that built the table object (scope, id) stored for
\* the command name n: what its last loader invocation for n returned, and
\* for a global table's own entry the loader itself.
LoaderResult(scope, id, n) ==
  LET calls == loads[scope][id]
      k == CHOOSE k \in 1..Len(calls) :
             /\ calls[k].name = n
             /\ \A j \in (k + 1)..Len(calls) : calls[j].name # n
  IN IF scope = "global" /\ n = "vkGetInstanceProcAddr" THEN calls[k].loader
     ELSE Invoke(calls[k].loader, calls[k].ctx, n)

\* C14: in every build configuration, get(hash(n)) and operator()(hash(n))
\* return, for a command name n the configuration lists, the slot that
\* holds the loader's result for n, whatever identifier the configuration
\* gives n; for a name the configuration does not list they return null.
C14_HashLookupAcrossBuilds ==
  IsHashLookup =>
    \A n \in Range(EnabledCommands(BUILD_1_1, last.scope)) :
      last.hash = NameHash(last.scope, n) =>
        IF n \in Range(CommandList(last.scope))
        THEN /\ last.outcome = "ok"
             /\ last.ret = SlotPtr(CommandOf(last.scope, n))
             /\ last.val = LoaderResult(last.scope, last.id, n)
        ELSE /\ last.outcome = "ok"
             /\ last.ret = NullPtr

\* In the smaller configuration vkDestroyDevice has identifier 0 instead of
\* 1, and its hash still finds the pointer resolved for it.
C14_Witness ==
  /\ config = BUILD_1_0
  /\ last.op = "get(hash)"
  /\ last.scope = "device"
  /\ last.hash = NameHash("device", "vkDestroyDevice")
  /\ last.ret = SlotPtr(0)
  /\ CommandOf("device", "vkDestroyDevice") = 0
  /\ Callable(last.val)
  /\ last.val.path[Len(last.val.path)].name = "vkDestroyDevice"


\* The pool of a scope's table objects after the step.
PoolNext(scope) ==
  CASE scope = "global" -> gtabs'
    [] scope = "instance" -> itabs'
    [] scope = "device" -> dtabs'

\* The step is the operation op applied to the table object (scope, id).
StepOn(op, scope, id) ==
  last'.op = op /\ last'.scope = scope /\ last'.id = id

\* C15 (as stated): no operation on a constructed table - lookup by
\* identifier or hash, size, the handle accessors, use as parent or base of
\* a construction, copy construction from it, copy assignment to it -
\* changes its slot values, its length or its stored handles.
C15_ReadOnlyAfterConstruction ==
  [][ \A scope \in Scopes : \A id \in TableIds(scope) :
        (Pool(scope)[id].alive /\ ~StepOn("~table", scope, id))
          => PoolNext(scope)[id] = Pool(scope)[id] ]_vars

\* C15 (amended): copy assignment to a table replaces its slot values and
\* stored handles by those of the right-hand side and keeps its length; no
\* other operation on a constructed table (lookup by identifier or hash,
\* size, the handle accessors, use as parent or base of a construction,
\* copy construction from it, being the right-hand side of a copy
\* assignment) changes its slot values, its length or its stored handles.
C15_ReadOnlyExceptAssignment ==
  [][ \A scope \in Scopes : \A id \in TableIds(scope) :
        (Pool(scope)[id].alive /\ ~StepOn("~table", scope, id))
          => IF StepOn("operator=", scope, id)
             THEN /\ PoolNext(scope)[id] = Pool(scope)[last'.other]
                  /\ Size(scope, PoolNext(scope)[id]) = Size(scope, Pool(scope)[id])
             ELSE PoolNext(scope)[id] = Pool(scope)[id] ]_vars

\* A device table was assigned another device table holding other handles
\* and now holds that table's handles and slots.
C15_Witness ==
  /\ last.op = "operator="
  /\ last.scope = "device"
  /\ last.id # last.other
  /\ dtabs[last.id] = dtabs[last.other]
  /\ device_device(dtabs[last.id]) # NullDevice
  /\ loads["device"][last.id] = loads["device"][last.other]

\* A lookup by identifier on an instance or device table returns what the
\* table's own constructor resolved for the command.
LookupReadsOwnSlots ==
  (IsCommandLookup /\ last.scope # "global" /\ last.ret.found) =>
    last.val = LoaderResult(last.scope, last.id, NameOf(last.scope, last.cmd))

\* Ending the lifetime of a table object, or assigning to it, leaves every
\* other table object as it was, with every lookup on it answering as
\* before.
OthersKept ==
  (last'.op \in {"~table", "operator="}) =>
    \A scope \in Scopes : \A id \in TableIds(scope) :
      ~(scope = last'.scope /\ id = last'.id) =>
        /\ PoolNext(scope)[id] = Pool(scope)[id]
        /\ Pool(scope)[id].alive =>
             \A cmd \in CommandProbes(scope) :
               LET before == GetCommand(scope, Pool(scope)[id], "get", cmd)
                   after == GetCommand(scope, PoolNext(scope)[id], "get", cmd)
               IN /\ after = before
                  /\ after.found =>
                       Deref(PoolNext(scope)[id], after) = Deref(Pool(scope)[id], before)

\* C16: a dependent table has no ownership relation with its parents:
\* destroying or overwriting the global table, instance table or base
\* table it was built from leaves its slots and stored handles unchanged,
\* and lookups on it read its own slots, never a parent.
C16_NoOwnershipOfParents ==
  []LookupReadsOwnSlots /\ [][OthersKept]_vars

\* A lookup on a device table built by extension finds the resolved
\* pointer after every global table, the instance table and its base have
\* been destroyed.
C16_Witness ==
  /\ last.op = "get(command)"
  /\ last.scope = "device"
  /\ last.ret.found
  /\ Callable(last.val)
  /\ device_device(Target) # NullDevice
  /\ \A g \in TableIds("global") : ~gtabs[g].alive
  /\ \A i \in TableIds("instance") : ~itabs[i].alive
  /\ \A d \in TableIds("device") \ {last.id} : ~dtabs[d].alive


\* The result of the constructor call of thread p run alone on the parents
\* as they are.
RunAlone(p) ==
  LET run == runs[p]
  IN CASE run.op = OP_INSTANCE -> instance_table(gtabs[run.g], run.instance)
       [] run.op = OP_DEVICE_1 -> device_table_1(gtabs[run.g], itabs[run.i], run.device)
       [] run.op = OP_DEVICE_2 -> device_table_2(gtabs[run.g], run.instance)
       [] run.op = OP_DEVICE_3 -> device_table_3(gtabs[run.g], itabs[run.i])
       [] run.op = OP_DEVICE_4 -> device_table_4(dtabs[run.base], run.device)

\* Every finished constructor call ended as it does run alone, and a table
\* it built is the table it builds run alone.
InterleavedAsAlone ==
  \A p \in Procs :
    /\ runs[p].pc = "done" =>
         /\ runs[p].outcome = RunAlone(p).outcome
         /\ runs[p].outcome = "ok" =>
              Pool(runs[p].scope)[runs[p].id] = RunAlone(p).table
    /\ runs[p].pc = "crashed" => "crash" \in Outcomes(RunAlone(p))

\* A step leaves every table that exists as it is.
ExistingKept ==
  \A scope \in Scopes : \A id \in TableIds(scope) :
    Pool(scope)[id].alive => PoolNext(scope)[id] = Pool(scope)[id]

\* C17: constructor calls of independent dependent tables that read the
\* same constructed parents, interleaved at the grain of single loader
\* invocations and slot writes, build the tables they build run alone, and
\* no step changes a table that already exists.
C17_InterleavedConstructions == []InterleavedAsAlone /\ [][ExistingKept]_vars

\* Two calls, of instance::table and of device::table(global, instance),
\* interleaved their steps reading one global table and both finished.
C17_Witness ==
  /\ \A p \in Procs : runs[p].pc = "done" /\ runs[p].outcome = "ok" /\ runs[p].mixed
  /\ runs[1].g = runs[2].g
  /\ {runs[1].op, runs[2].op} = {OP_INSTANCE, OP_DEVICE_2}
  /\ Callable(gtabs[runs[1].g].m_pfns[CommandOf("global", "vkGetInstanceProcAddr")])
  /\ \A p \in Procs : Pool(runs[p].scope)[runs[p].id].alive


\* Name a comes before name b in the order of their bytes.
NameLess(a, b) ==
  LET x == NameBytes(a)
      y == NameBytes(b)
      shorter == IF Len(x) < Len(y) THEN Len(x) ELSE Len(y)
      differ == {k \in 1..shorter : x[k] # y[k]}
  IN IF differ = {} THEN Len(x) < Len(y)
     ELSE LET k == CHOOSE j \in differ : \A o \in differ : j <= o
          IN x[k] < y[k]

\* The identifiers of a scope are 0, 1, ... in the order of the names.
IdentifiersInNameOrder(scope) ==
  LET list == CommandList(scope)
  IN /\ \A k \in 1..Len(list) : CommandOf(scope, list[k]) = k - 1
     /\ \A a, b \in 1..Len(list) :
          a < b => /\ NameLess(list[a], list[b])
                   /\ CommandOf(scope, list[a]) < CommandOf(scope, list[b])

\* C18: in every reachable state every table has as many slots as its scope
\* enumerates command names, size() returns that number, the identifiers a
\* lookup accepts are exactly 0..size()-1, and the identifiers follow the
\* sorted order of the names, distinct names having distinct identifiers.
C18_SizeAndIdentifiers ==
  /\ \A scope \in Scopes :
       /\ IdentifiersInNameOrder(scope)
       /\ \A id \in TableIds(scope) :
            TableAt(scope, id).alive =>
              /\ Size(scope, TableAt(scope, id)) = Len(CommandList(scope))
              /\ DOMAIN TableAt(scope, id).m_pfns = 0..(Size(scope, TableAt(scope, id)) - 1)
              /\ \A via \in Vias : \A cmd \in CommandProbes(scope) :
                   ~GetCommand(scope, TableAt(scope, id), via, cmd).err
                     <=> cmd \in 0..(Size(scope, TableAt(scope, id)) - 1)
  /\ last.op = "size()" => last.size = Len(CommandList(last.scope))

\* size() of a device table of a build of two device commands returned 2.
C18_Witness ==
  /\ config = BUILD_1_0
  /\ last.op = "size()"
  /\ last.scope = "device"
  /\ Target.alive
  /\ last.size = 2
  /\ CommandList("device") = <<"vkDestroyDevice", "vkGetDeviceProcAddr">>


\* C19: whatever constructions (successful or failed), copies, assignments,
\* destructions and extensions came before, every instance table and every
\* device table that exists holds a top-level handle that is not null, and
\* instance() returns it; so does a device table built from an instance
\* table, whose constructor checks no handle.
C19_TopLevelHandlePresent ==
  /\ \A id \in TableIds("instance") :
       itabs[id].alive => instance_instance(itabs[id]) # NullInstance
  /\ \A id \in TableIds("device") :
       dtabs[id].alive => device_instance(dtabs[id]) # NullInstance
  /\ last.op = "instance()" => last.instance # NullInstance
  /\ (IsDevice3 /\ last.outcome = "ok") =>
       /\ Target.alive
       /\ device_instance(Target) \in InstanceHandles \ {NullInstance}

\* device::table(global, instance table) built a table beside an extended
\* device table, after a construction with a null handle had failed or a
\* table had been destroyed.
C19_Witness ==
  /\ IsDevice3
  /\ last.outcome = "ok"
  /\ Target.alive
  /\ device_instance(Target) = VkInstance(1)
  /\ device_device(Target) = NullDevice
  /\ \E d \in TableIds("device") \ {last.id} :
       dtabs[d].alive /\ device_device(dtabs[d]) # NullDevice


\* Bit b (from 0, the least significant) of an unsigned value in limbs.
BitOf(limbs, b) == (limbs[(b \div 8) + 1] \div Pow2(b % 8)) % 2

\* A call of the hash function on the empty string has returned.
EmptyHashed == fnv.pc = "returned" /\ fnv.str = <<>>

\* C20 as stated: for every instantiation the hash of the empty string is
\* computed without an XOR or a multiplication and is the offset basis
\* unchanged, 0xcbf29ce484222325 for fnv_1a_cstr.
C20_EmptyStringIsOffsetBasis ==
  EmptyHashed =>
    /\ fnv.xors = 0
    /\ fnv.muls = 0
    /\ fnv.ret = fnv.Offset
    /\ (fnv.Offset = FNV64_OFFSET /\ fnv.Prime = FNV64_PRIME /\ fnv.MaxDigits = 64) =>
         fnv.ret = <<37, 35, 34, 132, 228, 156, 242, 203>>

\* C20 as the code has it: for every instantiation the hash of the empty
\* string is computed without an XOR or a multiplication and is the offset
\* basis with the digits from MaxDigits up cleared, which is the offset
\* basis unchanged when it has no such digit; it is 0xcbf29ce484222325 for
\* fnv_1a_cstr.
C20_EmptyStringIsMaskedOffsetBasis ==
  EmptyHashed =>
    /\ fnv.xors = 0
    /\ fnv.muls = 0
    /\ Len(fnv.ret) = Len(fnv.Offset)
    /\ \A b \in 0..(8 * Len(fnv.Offset) - 1) :
         BitOf(fnv.ret, b) = IF b < fnv.MaxDigits THEN BitOf(fnv.Offset, b) ELSE 0
    /\ (\A b \in fnv.MaxDigits..(8 * Len(fnv.Offset) - 1) : BitOf(fnv.Offset, b) = 0) =>
         fnv.ret = fnv.Offset
    /\ fnv.ret = basic_fnv_1a_cstr(fnv.Offset, fnv.Prime, fnv.MaxDigits, <<>>, fnv.charSigned)
    /\ (fnv.Offset = FNV64_OFFSET /\ fnv.Prime = FNV64_PRIME /\ fnv.MaxDigits = 64) =>
         fnv.ret = <<37, 35, 34, 132, 228, 156, 242, 203>>

\* fnv_1a_cstr("") returned 0xcbf29ce484222325 without a pass of the loop.
C20_Witness ==
  /\ EmptyHashed
  /\ fnv.xors = 0
  /\ fnv.muls = 0
  /\ fnv.Offset = FNV64_OFFSET
  /\ fnv.Prime = FNV64_PRIME
  /\ fnv.MaxDigits = 64
  /\ fnv.ret = <<37, 35, 34, 132, 228, 156, 242, 203>>


\* The call that returned is a call of fnv_1a_cstr.
IsFnv64 ==
  /\ fnv.pc = "returned"
  /\ fnv.Offset = FNV64_OFFSET
  /\ fnv.Prime = FNV64_PRIME
  /\ fnv.MaxDigits = 64

RECURSIVE ReferenceFnv1a(_, _, _, _)
\* The reference FNV-1a of the bytes k.. of str from accumulator acc: each
\* byte, a value in 0..255, is XORed into the low eight bits and the result
\* multiplied by the prime modulo 2^(8 * Len(acc)).
ReferenceFnv1a(acc, prime, str, k) ==
  IF k > Len(str) THEN acc
  ELSE LET xored == [i \in 1..Len(acc) |->
                       IF i = 1 THEN BitXor(acc[1], str[k]) ELSE acc[i]]
           next == MulLimbs(xored, prime)
       IN IF Len(next) = Len(acc) THEN ReferenceFnv1a(next, prime, str, k + 1)
          ELSE next

\* C21: fnv_1a_cstr(s) is the reference 64-bit FNV-1a of the bytes of s,
\* each byte taken as a value in 0..255, from 0xcbf29ce484222325 with prime
\* 0x100000001b3; "foobar" hashes to 0x85944171f73967e8.
C21_Fnv64IsReference ==
  IsFnv64 =>
    /\ fnv.ret = ReferenceFnv1a(<<37, 35, 34, 132, 228, 156, 242, 203>>,
                                <<179, 1, 0, 0, 0, 1, 0, 0>>, fnv.str, 1)
    /\ fnv.str = NameBytes("foobar") =>
         fnv.ret = <<232, 103, 57, 247, 113, 65, 148, 133>>

\* C21 for the calls in which no char is negative: those of a build with
\* unsigned char and those on strings of bytes below 128.
C21_Fnv64IsReferenceForNonNegativeChars ==
  (IsFnv64 /\ (~fnv.charSigned \/ \A k \in 1..Len(fnv.str) : fnv.str[k] < 128)) =>
    /\ fnv.ret = ReferenceFnv1a(FNV64_OFFSET, FNV64_PRIME, fnv.str, 1)
    /\ fnv.str = NameBytes("foobar") =>
         fnv.ret = <<232, 103, 57, 247, 113, 65, 148, 133>>

\* fnv_1a_cstr("foobar") returned 0x85944171f73967e8 on a build with signed
\* char.
C21_Witness ==
  /\ IsFnv64
  /\ fnv.charSigned
  /\ fnv.str = NameBytes("foobar")
  /\ fnv.xors = 6
  /\ fnv.muls = 6
  /\ fnv.ret = <<232, 103, 57, 247, 113, 65, 148, 133>>


\* An unsigned value converted to a type of n limbs.
Refit(limbs, n) == [i \in 1..n |-> IF i <= Len(limbs) THEN limbs[i] ELSE 0]

\* The value is a value of the unsigned type of n limbs.
Fits(limbs, n) == \A i \in (n + 1)..Len(limbs) : limbs[i] = 0

\* The storage types compared, in limbs: std::uint32_t and std::uint64_t.
StorageLimbs == {4, 8}

\* C22: the value a call returns is below 2^MaxDigits when the storage has
\* at least MaxDigits digits, and it is the value the instantiation with the
\* same offset basis, prime and MaxDigits in every other storage of at least
\* MaxDigits digits returns for the string; so the 32-bit function computed
\* in 64 bits equals the function computed in 32 bits, widened.
C22_StorageWidthIndependent ==
  fnv.pc = "returned" =>
    /\ \A b \in fnv.MaxDigits..(8 * Len(fnv.ret) - 1) : BitOf(fnv.ret, b) = 0
    /\ \A n \in StorageLimbs :
         (8 * n >= fnv.MaxDigits /\ Fits(fnv.Offset, n) /\ Fits(fnv.Prime, n)) =>
           Refit(fnv.ret, 8) =
             Refit(basic_fnv_1a_cstr(Refit(fnv.Offset, n), Refit(fnv.Prime, n),
                                     fnv.MaxDigits, fnv.str, fnv.charSigned), 8)
    /\ (fnv.Offset = FNV32_OFFSET_64 /\ fnv.Prime = FNV32_PRIME_64 /\ fnv.MaxDigits = 32) =>
         fnv.ret = Refit(basic_fnv_1a_cstr(FNV32_OFFSET, FNV32_PRIME, 32,
                                           fnv.str, fnv.charSigned), 8)

\* The 32-bit function computed in 64 bits of storage on a string with a
\* negative char returned; the mask cleared digits of the accumulator.
C22_Witness ==
  /\ fnv.pc = "returned"
  /\ fnv.Offset = FNV32_OFFSET_64
  /\ fnv.MaxDigits = 32
  /\ fnv.charSigned
  /\ \E k \in 1..Len(fnv.str) : fnv.str[k] >= 128
  /\ fnv.hash # fnv.ret
  /\ fnv.ret = Refit(basic_fnv_1a_cstr(FNV32_OFFSET, FNV32_PRIME, 32, fnv.str, TRUE), 8)


\* The root loader stored in the global table of the last construction.
RootOfLast == gtabs[last.g].m_pfns[CommandOf("global", "vkGetInstanceProcAddr")]

\* L1 = R(I.instance(), "vkGetDeviceProcAddr") of the last construction from
\* an instance table.
FirstLevelOfLast ==
  Invoke(RootOfLast, instance_instance(itabs[last.i]), "vkGetDeviceProcAddr")

\* L2 = L1(d, "vkGetDeviceProcAddr") of the last construction.
SecondLevelOfLast == Invoke(FirstLevelOfLast, last.device, "vkGetDeviceProcAddr")

\* C23 as stated: after device::table(G, I, d) succeeds with loaders that
\* resolve vkGetDeviceProcAddr, every device command slot c holds
\* L2(d, name(c)), where L1 = R(I.instance(), "vkGetDeviceProcAddr") and
\* L2 = L1(d, "vkGetDeviceProcAddr").
C23_ResolvedThroughSecondLevel ==
  (/\ IsDevice1
   /\ last.outcome = "ok"
   /\ Callable(FirstLevelOfLast)
   /\ Callable(SecondLevelOfLast)) =>
    \A c \in Commands("device") :
      Target.m_pfns[c] = Invoke(SecondLevelOfLast, last.device, NameOf("device", c))

\* C23 as the code has it: after device::table(G, I, d) succeeds, every
\* device command slot c holds L1(d, name(c)) with
\* L1 = R(I.instance(), "vkGetDeviceProcAddr"); the constructor invokes R
\* once, then L1 once per command, and L2 = L1(d, "vkGetDeviceProcAddr") is
\* what the vkGetDeviceProcAddr slot holds, never a loader it invokes.
C23_ResolvedThroughFirstLevel ==
  (IsDevice1 /\ last.outcome = "ok") =>
    /\ \A c \in Commands("device") :
         Target.m_pfns[c] = Invoke(FirstLevelOfLast, last.device, NameOf("device", c))
    /\ Target.m_pfns[CommandOf("device", "vkGetDeviceProcAddr")] = SecondLevelOfLast
    /\ last.calls =
         <<Invocation(RootOfLast, instance_instance(itabs[last.i]), "vkGetDeviceProcAddr")>>
           \o [k \in 1..Len(CommandList("device")) |->
                 Invocation(FirstLevelOfLast, last.device, CommandList("device")[k])]
    /\ Callable(SecondLevelOfLast) =>
         \A k \in 1..Len(last.calls) : last.calls[k].loader # SecondLevelOfLast

\* device::table(G, I, d) succeeded over loaders that resolve
\* vkGetDeviceProcAddr at both levels.
C23_Witness ==
  /\ IsDevice1
  /\ last.outcome = "ok"
  /\ Callable(FirstLevelOfLast)
  /\ Callable(SecondLevelOfLast)
  /\ Target.alive
  /\ Callable(Target.m_pfns[CommandOf("device", "vkDestroyDevice")])
  /\ Target.m_pfns[CommandOf("device", "vkDestroyDevice")]
       # Invoke(SecondLevelOfLast, last.device, "vkDestroyDevice")


\* R(h, "vkGetDeviceProcAddr") of the last construction from a handle h.
ChildLoaderOfLast == Invoke(RootOfLast, last.instance, "vkGetDeviceProcAddr")

\* C24 as stated: after device::table(G, h) succeeds with R resolving
\* vkGetDeviceProcAddr, every device command slot holds a result of
\* L1 = R(h, "vkGetDeviceProcAddr"), R was invoked once, for L1, and not once
\* per command, and device() is null.
C24_ResolvedThroughChildLoader ==
  (IsDevice2 /\ last.outcome = "ok" /\ Callable(ChildLoaderOfLast)) =>
    /\ \A c \in Commands("device") :
         Target.m_pfns[c] = Invoke(ChildLoaderOfLast, last.instance, NameOf("device", c))
    /\ Cardinality({k \in 1..Len(last.calls) : last.calls[k].loader = RootOfLast}) = 1
    /\ device_device(Target) = NullDevice

\* C24 as the code has it: after device::table(G, h) succeeds, every device
\* command slot c holds R(h, name(c)): the constructor invokes the root
\* loader R itself once per command and nothing else, the loader
\* R(h, "vkGetDeviceProcAddr") being only the value of the
\* vkGetDeviceProcAddr slot; device() is null.
C24_ResolvedByRootLoader ==
  (IsDevice2 /\ last.outcome = "ok") =>
    /\ \A c \in Commands("device") :
         Target.m_pfns[c] = Invoke(RootOfLast, last.instance, NameOf("device", c))
    /\ last.calls = [k \in 1..Len(CommandList("device")) |->
                       Invocation(RootOfLast, last.instance, CommandList("device")[k])]
    /\ Target.m_pfns[CommandOf("device", "vkGetDeviceProcAddr")] = ChildLoaderOfLast
    /\ device_device(Target) = NullDevice
    /\ device_instance(Target) = last.instance

\* device::table(G, h) succeeded over a root loader that resolves
\* vkGetDeviceProcAddr; the vkDestroyDevice slot holds what R returned.
C24_Witness ==
  /\ IsDevice2
  /\ last.outcome = "ok"
  /\ Callable(ChildLoaderOfLast)
  /\ Target.alive
  /\ device_device(Target) = NullDevice
  /\ Callable(Target.m_pfns[CommandOf("device", "vkDestroyDevice")])
  /\ Target.m_pfns[CommandOf("device", "vkDestroyDevice")]
       = Invoke(RootOfLast, last.instance, "vkDestroyDevice")


\* What device::table(G, I.instance()) comes to for the G and I of the last
\* construction from an instance table.
Variant2OfLast == device_table_2(gtabs[last.g], instance_instance(itabs[last.i]))

\* C25: device::table(G, I) makes the loader invocations of
\* device::table(G, I.instance()), in the same order, ends as it does, and
\* yields the same slots, the same instance() and a null device().
C25_Variant3IsVariant2 ==
  IsDevice3 =>
    /\ last.outcome \in Outcomes(Variant2OfLast)
    /\ last.outcome = "ok" =>
         /\ last.calls = Variant2OfLast.calls
         /\ last.writes = Variant2OfLast.writes
         /\ Target.m_pfns = Variant2OfLast.table.m_pfns
         /\ device_instance(Target) = device_instance(Variant2OfLast.table)
         /\ device_instance(Target) = instance_instance(itabs[last.i])
         /\ device_device(Target) = NullDevice
         /\ device_device(Variant2OfLast.table) = NullDevice
    /\ last.outcome = "crash" =>
         last.calls = SubSeq(Variant2OfLast.calls, 1, Len(last.calls))

\* device::table(G, I) succeeded with resolved slots.
C25_Witness ==
  /\ IsDevice3
  /\ last.outcome = "ok"
  /\ Target.alive
  /\ Variant2OfLast.outcome = "ok"
  /\ Len(last.calls) = Len(CommandList("device"))
  /\ Callable(Target.m_pfns[CommandOf("device", "vkGetDeviceProcAddr")])


\* The value of the vkGetDeviceProcAddr slot of the base table of the last
\* extension.
BaseLoaderOfLast ==
  dtabs[last.base].m_pfns[CommandOf("device", "vkGetDeviceProcAddr")]

\* C26: device::table(base, d) invokes only the value of base's
\* vkGetDeviceProcAddr slot, with d, once per device command: it invokes no
\* root loader and reads no global table, and every device command slot c
\* of its result holds that loader's result for (d, name(c)).
C26_ExtensionUsesBaseLoader ==
  (IsDevice4 /\ last.outcome \in {"ok", "crash"}) =>
    /\ last.g = NoOp.g
    /\ \A k \in 1..Len(last.calls) :
         /\ last.calls[k] = Invocation(BaseLoaderOfLast, last.device, CommandList("device")[k])
         /\ last.calls[k].loader \notin {RootLoader(r) : r \in RootLoaders}
    /\ last.outcome = "ok" =>
         /\ Len(last.calls) = Len(CommandList("device"))
         /\ \A c \in Commands("device") :
              Target.m_pfns[c] = Invoke(BaseLoaderOfLast, last.device, NameOf("device", c))

\* An extension succeeded through a loader read from base's slot, which a
\* root loader had returned when base was built.
C26_Witness ==
  /\ IsDevice4
  /\ last.outcome = "ok"
  /\ Callable(BaseLoaderOfLast)
  /\ Len(BaseLoaderOfLast.path) = 1
  /\ device_device(Target) = last.device
  /\ Callable(Target.m_pfns[CommandOf("device", "vkDestroyDevice")])


IsGlobal == last.op = "global::table"

\* The positions of the writes of the vkGetInstanceProcAddr slot among the
\* slot writes of the last construction.
OwnSlotWrites ==
  {k \in 1..Len(last.writes) :
     last.writes[k] = CommandOf("global", "vkGetInstanceProcAddr")}

\* C27 as stated: global::table(L) never invokes L with
\* "vkGetInstanceProcAddr", and writes the slot of vkGetInstanceProcAddr
\* only with L.
C27_OwnNameNeverResolved ==
  (IsGlobal /\ last.outcome = "ok") =>
    /\ \A k \in 1..Len(last.calls) : last.calls[k].name # "vkGetInstanceProcAddr"
    /\ Cardinality(OwnSlotWrites) = 1
    /\ Target.m_pfns[CommandOf("global", "vkGetInstanceProcAddr")] = last.loader

\* C27 as the code has it: global::table(L) invokes L once for every global
\* command in list order, "vkGetInstanceProcAddr" included, and writes the
\* result to the command's slot; its last write stores L itself over the
\* slot of vkGetInstanceProcAddr, which holds L when the constructor
\* returns.
C27_OwnNameResolvedThenOverwritten ==
  (IsGlobal /\ last.outcome = "ok") =>
    /\ last.calls = [k \in 1..Len(CommandList("global")) |->
                       Invocation(last.loader, NullInstance, CommandList("global")[k])]
    /\ Cardinality({k \in 1..Len(last.calls) :
                      last.calls[k].name = "vkGetInstanceProcAddr"}) = 1
    /\ Cardinality(OwnSlotWrites) = 2
    /\ Len(last.writes) \in OwnSlotWrites
    /\ Target.m_pfns[CommandOf("global", "vkGetInstanceProcAddr")] = last.loader

\* global::table(L) succeeded with a loader that resolves its own name to a
\* pointer other than L.
C27_Witness ==
  /\ IsGlobal
  /\ last.outcome = "ok"
  /\ Callable(Invoke(last.loader, NullInstance, "vkGetInstanceProcAddr"))
  /\ Invoke(last.loader, NullInstance, "vkGetInstanceProcAddr") # last.loader
  /\ Target.m_pfns[CommandOf("global", "vkGetInstanceProcAddr")] = last.loader


\* The last operation was a call of a constructor that resolves commands.
IsConstruction == IsGlobal \/ last.op = "instance::table" \/ IsDevice1 \/ IsDevice2
                    \/ IsDevice3 \/ IsDevice4

\* The loader invocations of the last construction are up to two that get a
\* loader, then one per command of the scope, by name in list order.
InvocationsBounded ==
  LET list == CommandList(last.scope)
      pre == Len(last.calls) - Len(list)
  IN /\ pre \in 0..2
     /\ \A k \in 1..pre : last.calls[k].name = "vkGetDeviceProcAddr"
     /\ \A k \in 1..Len(list) : last.calls[pre + k].name = list[k]

\* A lookup, an accessor, a copy, an assignment and a destruction invoke no
\* loader.
NoLoaderAfterConstruction ==
  (last.op \in PureOps \cup {"table(const table&)", "operator=", "~table"}) =>
    last.calls = <<>>

\* C28: every constructor call returns, having either thrown before any
\* loader invocation or made one invocation per command of its scope after
\* at most two invocations that get a loader; no lookup, accessor, copy or
\* destruction invokes a loader.
C28_ConstructorsTerminate ==
  /\ IsConstruction =>
       /\ last.outcome \in {"ok", "error"}
       /\ last.outcome = "error" => last.calls = <<>>
       /\ last.outcome = "ok" => InvocationsBounded
  /\ NoLoaderAfterConstruction

\* C28 but for the constructor calls that die in a call through a null
\* loader: those made a part of the bounded invocations, the last of them
\* through what is no function.
C28_ConstructorsBounded ==
  /\ IsConstruction =>
       /\ last.outcome \in {"ok", "error", "crash"}
       /\ last.outcome = "error" => last.calls = <<>>
       /\ last.outcome = "ok" => InvocationsBounded
       /\ last.outcome = "crash" =>
            /\ Len(last.calls) \in 1..(Len(CommandList(last.scope)) + 2)
            /\ ~Callable(last.calls[Len(last.calls)].loader)
  /\ NoLoaderAfterConstruction

\* A construction made its invocations and returned, and a copy of a table
\* was then made.
C28_Witness ==
  /\ last.op = "table(const table&)"
  /\ last.scope = "device"
  /\ last.calls = <<>>
  /\ Target.alive
  /\ Len(loads["device"][last.id]) = Len(CommandList("device")) + 1


\* An instance table for the top-level handle of the base table of the last
\* extension.
ScopeTableOfBase ==
  [alive |-> TRUE, m_instance |-> device_instance(dtabs[last.base]),
   m_pfns |-> EmptyPfns(INSTANCE_COMMAND_COUNT)]

\* The global tables from which device::table(G, h) or device::table(G, I)
\* built the base table of the last extension.
GlobalsOfBase ==
  {g \in TableIds("global") :
     /\ gtabs[g].alive
     /\ loads["device"][last.base] =
          LoadCalls("device",
                    gtabs[g].m_pfns[CommandOf("global", "vkGetInstanceProcAddr")],
                    device_instance(dtabs[last.base]))}

\* C29: a device table built for a top-level handle h from G (by
\* device::table(G, h) or device::table(G, I)) and extended with d is the
\* table device::table(G, I, d) builds for an instance table I of h: the
\* same slots, instance() and device(); and where the loader of h resolves
\* no vkGetDeviceProcAddr both constructions call through a null pointer.
C29_ExtensionIsFullSpecialization ==
  (IsDevice4 /\ last.outcome \in {"ok", "crash"}) =>
    \A g \in GlobalsOfBase :
      LET direct == device_table_1(gtabs[g], ScopeTableOfBase, last.device)
      IN /\ last.outcome \in Outcomes(direct)
         /\ Outcomes(direct) = Outcomes(device_table_4(dtabs[last.base], last.device))
         /\ last.outcome = "ok" =>
              /\ Target.m_pfns = direct.table.m_pfns
              /\ device_instance(Target) = device_instance(direct.table)
              /\ device_device(Target) = device_device(direct.table)
              /\ device_device(Target) = last.device
         /\ (last.outcome = "ok" /\ Callable(BaseLoaderOfLast)) =>
              \A c \in Commands("device") :
                Target.m_pfns[c] =
                  Invoke(Invoke(gtabs[g].m_pfns[CommandOf("global", "vkGetInstanceProcAddr")],
                                device_instance(Target), "vkGetDeviceProcAddr"),
                         last.device, NameOf("device", c))

\* A table built by device::table(G, I) was extended with a device through
\* a loader that resolves commands.
C29_Witness ==
  /\ IsDevice4
  /\ last.outcome = "ok"
  /\ GlobalsOfBase # {}
  /\ Callable(BaseLoaderOfLast)
  /\ device_device(dtabs[last.base]) = NullDevice
  /\ device_device(Target) = VkDevice(1)
  /\ Callable(Target.m_pfns[CommandOf("device", "vkDestroyDevice")])


\* C30: a construction that passed its checks of handles and of the root
\* loader invoked only loaders that are not null, whatever the root loader
\* returned for "vkGetDeviceProcAddr" and whatever base's
\* vkGetDeviceProcAddr slot holds.
C30_NoNullLoaderInvoked ==
  (IsConstruction /\ last.outcome \in {"ok", "crash"}) =>
    \A k \in 1..Len(last.calls) : last.calls[k].loader # NullPfn

\* C30 for the constructors that invoke only the root loader of a global
\* table: global::table, instance::table, device::table(G, h) and
\* device::table(G, I).
C30_RootLoaderInvocationsNotNull ==
  ((IsGlobal \/ last.op = "instance::table" \/ IsDevice2 \/ IsDevice3)
     /\ last.outcome \in {"ok", "crash"}) =>
    /\ last.outcome = "ok"
    /\ \A k \in 1..Len(last.calls) : Callable(last.calls[k].loader)

\* device::table(G, I, d) invoked the null pointer that the root loader had
\* returned for "vkGetDeviceProcAddr".
C30_Witness ==
  /\ IsDevice1
  /\ last.outcome = "crash"
  /\ Callable(RootOfLast)
  /\ FirstLevelOfLast = NullPfn
  /\ last.calls[Len(last.calls)].loader = NullPfn

====
